---- MODULE Spec2Model ----
(***************************************************************************)
(* Decomposition-and-allocation pipeline of pddl-generalized-allocator:    *)
(* goal graph, connected components, epsilon-greedy splitting, role        *)
(* extraction, role-based fine partition, constraint-aware merge, the      *)
(* retry loop of build_subtasks_with_retry, and allocate_subtasks.         *)
(*                                                                         *)
(* Conventions.  Python indexes from 0, TLA+ sequences from 1: an argument *)
(* position i of the source is args[i + 1] here.  A role-signature value   *)
(* (a Python str read with split("|") and written with "|".join) is the    *)
(* sequence of its pieces: <<"r1", "|", "r2">> is the string "r1|r2" and   *)
(* <<"r1">> is the string "r1".  Floats are counted in units of 1/EpsOne.  *)
(***************************************************************************)
EXTENDS Integers, Sequences, FiniteSets, TLC

\* ------------------------------------------------------------------------
\* Strings: Python compares str lexicographically (min, sorted).  NameOrder
\* lists every object name of the model in lexicographic order.
NameOrder == <<"a", "b", "c", "d", "e", "r1", "r2", "t1", "t2", "|">>

Rank(s) == CHOOSE i \in 1..Len(NameOrder) : NameOrder[i] = s

\* min(S) of a non-empty set of names
MinStr(S) == CHOOSE x \in S : \A y \in S : Rank(x) <= Rank(y)

\* sorted(S) of a set of names
RECURSIVE SortedNames(_)
SortedNames(S) ==
    IF S = {} THEN <<>> ELSE <<MinStr(S)>> \o SortedNames(S \ {MinStr(S)})

Range(s) == {s[i] : i \in 1..Len(s)}

\* A Python str holding a role value is the sequence of its pieces, where
\* an object name is one piece and the character "|" is the piece "|".
Str(name) == <<name>>

\* '|' in value
HasBar(value) == \E i \in 1..Len(value) : value[i] = "|"

\* value.split("|"): the list of the segments between the bars
RECURSIVE SplitBar(_)
SplitBar(value) ==
    IF ~HasBar(value) THEN <<value>>
    ELSE LET k == CHOOSE i \in 1..Len(value) :
                     value[i] = "|" /\ \A j \in 1..(i - 1) : value[j] # "|"
         IN  <<SubSeq(value, 1, k - 1)>> \o SplitBar(SubSeq(value, k + 1, Len(value)))

\* "|".join(parts)
RECURSIVE JoinBar(_)
JoinBar(parts) ==
    IF parts = <<>> THEN <<>>
    ELSE IF Len(parts) = 1 THEN parts[1]
    ELSE parts[1] \o <<"|">> \o JoinBar(Tail(parts))

\* x <= y for two str in the piece representation (lexicographic)
RECURSIVE StrLeq(_, _)
StrLeq(x, y) ==
    IF x = <<>> THEN TRUE
    ELSE IF y = <<>> THEN FALSE
    ELSE IF Head(x) = Head(y) THEN StrLeq(Tail(x), Tail(y))
    ELSE Rank(Head(x)) < Rank(Head(y))

\* sorted(S) of a set of str
RECURSIVE SortedStrs(_)
SortedStrs(S) ==
    IF S = {} THEN <<>>
    ELSE LET m == CHOOSE x \in S : \A y \in S : StrLeq(x, y)
         IN  <<m>> \o SortedStrs(S \ {m})

\* every permutation of a finite set, as sequences without repetition
Perms(S) ==
    {p \in [1..Cardinality(S) -> S] : \A i, j \in 1..Cardinality(S) : p[i] = p[j] => i = j}

\* list(S) for a set S of goals under the iteration order `order` of the run
ListOf(S, order) == SelectSeq(order, LAMBDA g : g \in S)

RECURSIVE Flatten(_)
Flatten(ss) == IF ss = <<>> THEN <<>> ELSE Head(ss) \o Flatten(Tail(ss))

EmptyMap == [x \in {} |-> x]

\* ------------------------------------------------------------------------
\* GroundAtom (planning/task.py)
GroundAtom(p, a) == [predicate |-> p, args |-> a]

\* ------------------------------------------------------------------------
\* Role extraction (planning/roles.py)

\* one entry of ExtractorConfig.bindings: argument position idx of the init
\* atom must equal goal.args[index] (kind "goal") or roles_so_far[name]
Binding(i, k, n, r) == [idx |-> i, kind |-> k, index |-> n, name |-> r]

ExtractorConfig(p, b, v) == [predicate |-> p, bindings |-> b, value_arg |-> v]

BindingOk(atom, goal, roles_so_far, bind) ==
    /\ bind.idx < Len(atom.args)
    /\ IF bind.kind = "goal"
       THEN /\ bind.index < Len(goal.args)
            /\ atom.args[bind.idx + 1] = goal.args[bind.index + 1]
       ELSE /\ bind.name \in DOMAIN roles_so_far
            /\ atom.args[bind.idx + 1] = roles_so_far[bind.name]

evaluate_extractor_for_goal(task, goal, roles_so_far, extractor) ==
    {atom.args[extractor.value_arg + 1] :
        atom \in {a \in task.init :
                    /\ a.predicate = extractor.predicate
                    /\ \A bind \in extractor.bindings :
                          BindingOk(a, goal, roles_so_far, bind)
                    /\ extractor.value_arg < Len(a.args)}}

\* `for extractor in role_cfg.extractors[:1]`
RoleCandidates_FirstExtractor(task, goal, cfg, roles, r) ==
    evaluate_extractor_for_goal(task, goal, roles, cfg.roles[r][1])

RoleCandidates(task, goal, cfg, roles, r) ==
    UNION {evaluate_extractor_for_goal(task, goal, roles, cfg.roles[r][i]) :
             i \in 1..Len(cfg.roles[r])}

\* one pass of `for r in list(remaining_roles)`; visit is the list
RECURSIVE RoleRound(_, _, _, _, _, _)
RoleRound(task, goal, cfg, visit, roles, changed) ==
    IF visit = <<>> THEN [roles |-> roles, changed |-> changed]
    ELSE LET r == Head(visit)
             candidates == RoleCandidates(task, goal, cfg, roles, r)
         IN  IF candidates = {}
             THEN RoleRound(task, goal, cfg, Tail(visit), roles, changed)
             ELSE RoleRound(task, goal, cfg, Tail(visit),
                            roles @@ (r :> MinStr(candidates)), TRUE)

\* `while remaining_roles and changed`
RECURSIVE RoleLoop_Uncapped(_, _, _, _, _, _, _)
RoleLoop_Uncapped(task, goal, cfg, role_order, roles, changed, iteration) ==
    LET remaining_roles == (DOMAIN cfg.roles) \ (DOMAIN roles)
    IN  IF remaining_roles # {} /\ changed
        THEN LET visit == SelectSeq(role_order, LAMBDA r : r \in remaining_roles)
                 res == RoleRound(task, goal, cfg, visit, roles, FALSE)
                 rest == RoleLoop_Uncapped(task, goal, cfg, role_order, res.roles,
                                           res.changed, iteration + 1)
             IN  [roles |-> rest.roles, rounds |-> <<res.roles>> \o rest.rounds]
        ELSE [roles |-> roles, rounds |-> <<>>]

MaxRoleIterations == 10

\* the while loop; role_order is the iteration order of the set of role names.
\* rounds lists `roles` as it is at the end of each pass of the loop.
RECURSIVE RoleLoop(_, _, _, _, _, _, _)
RoleLoop(task, goal, cfg, role_order, roles, changed, iteration) ==
    LET remaining_roles == (DOMAIN cfg.roles) \ (DOMAIN roles)
    IN  IF remaining_roles # {} /\ changed /\ iteration < MaxRoleIterations
        THEN LET visit == SelectSeq(role_order, LAMBDA r : r \in remaining_roles)
                 res == RoleRound(task, goal, cfg, visit, roles, FALSE)
                 rest == RoleLoop(task, goal, cfg, role_order, res.roles, res.changed,
                                  iteration + 1)
             IN  [roles |-> rest.roles, rounds |-> <<res.roles>> \o rest.rounds]
        ELSE [roles |-> roles, rounds |-> <<>>]

\* status "ok": the mapping is returned; "none": None is returned;
\* "raise": RuntimeError
extract_roles_for_goal(task, goal, cfg, on_missing_role, role_order) ==
    LET loop == RoleLoop(task, goal, cfg, role_order, EmptyMap, TRUE, 0)
        roles == loop.roles
    IN  IF (DOMAIN cfg.roles) \ (DOMAIN roles) # {}
        THEN [status |-> IF on_missing_role = "error" THEN "raise" ELSE "none",
              roles |-> EmptyMap, rounds |-> loop.rounds]
        ELSE [status |-> "ok", roles |-> roles, rounds |-> loop.rounds]

\* raised: some goal raised; result: goal -> roles for the goals kept
extract_roles_for_goals(task, cfg, goals, on_missing_role, role_order) ==
    LET considered == {g \in goals : g.predicate \in cfg.goal_predicates}
        res == [g \in considered |->
                  extract_roles_for_goal(task, g, cfg, on_missing_role, role_order)]
        kept == {g \in considered : res[g].status = "ok"}
    IN  [raised |-> \E g \in considered : res[g].status = "raise",
         result |-> [g \in kept |-> res[g].roles]]

\* ------------------------------------------------------------------------
\* Causal graph and landmarks (planning/causal_graph.py, landmarks.py).
\* An action is [name, pre, add]: the predicate names _flatten_precondition
\* and _flatten_effect_adds return for it.

build_causal_graph(task) ==
    [p \in task.predicates |->
        UNION {a.add : a \in {x \in task.actions : p \in x.pre}}]

\* cg_rev.get(q, set())
CgParents(cg, q) == {p \in DOMAIN cg : q \in cg[p]}

RECURSIVE LandmarkBfs(_, _, _, _, _)
LandmarkBfs(cg, visited, frontier, depth, max_depth) ==
    IF depth < max_depth /\ frontier # {}
    THEN LET new_frontier == (UNION {CgParents(cg, q) : q \in frontier}) \ visited
         IN  LandmarkBfs(cg, visited \cup new_frontier, new_frontier,
                         depth + 1, max_depth)
    ELSE visited

compute_landmarks(task, cg, max_depth) ==
    LET graph == cg
    IN  [g \in task.goals |->
            LandmarkBfs(graph, {g.predicate}, {g.predicate}, 0, max_depth) \ {g.predicate}]

\* ------------------------------------------------------------------------
\* Goal graph (planning/goal_graph.py)

CgGet(cg, p) == IF p \in DOMAIN cg THEN cg[p] ELSE {}

GoalsConnected(gi, gj, cg, landmarks, use_landmarks) ==
    \/ gi.predicate = gj.predicate
    \/ gj.predicate \in CgGet(cg, gi.predicate)
    \/ gi.predicate \in CgGet(cg, gj.predicate)
    \/ use_landmarks /\ landmarks[gi] \cap landmarks[gj] # {}

build_goal_graph(goals, cg, landmarks, use_landmarks) ==
    LET graph == cg
        lm == landmarks
    IN  [g \in goals |->
            {h \in goals \ {g} : GoalsConnected(g, h, graph, lm, use_landmarks)}]

\* ------------------------------------------------------------------------
\* Clustering (planning/clustering.py)

\* _dfs_component: everything reachable from the goals of `frontier`
RECURSIVE DfsComponent(_, _, _)
DfsComponent(goal_graph, component, frontier) ==
    IF frontier = {} THEN component
    ELSE LET next == (UNION {goal_graph[g] : g \in frontier}) \ component
         IN  DfsComponent(goal_graph, component \cup next, next)

\* keys: goal_graph.keys() in dict order
RECURSIVE ComponentsFrom(_, _, _)
ComponentsFrom(goal_graph, keys, visited) ==
    IF keys = <<>> THEN <<>>
    ELSE IF Head(keys) \in visited
         THEN ComponentsFrom(goal_graph, Tail(keys), visited)
         ELSE LET component == DfsComponent(goal_graph, {Head(keys)}, {Head(keys)})
              IN  <<component>> \o
                  ComponentsFrom(goal_graph, Tail(keys), visited \cup component)

connected_components(goal_graph, keys) == ComponentsFrom(goal_graph, keys, {})

Min2(a, b) == IF a <= b THEN a ELSE b

\* `for i in range(0, len(seq) - max_size + 1, max_size)`: full chunks only
RECURSIVE Slices_FullChunksOnly(_, _)
Slices_FullChunksOnly(seq, max_size) ==
    IF Len(seq) < max_size THEN <<>>
    ELSE <<SubSeq(seq, 1, max_size)>> \o
         Slices_FullChunksOnly(SubSeq(seq, max_size + 1, Len(seq)), max_size)

\* [seq[i:i + max_size] for i in range(0, len(seq), max_size)], max_size >= 1
RECURSIVE Slices(_, _)
Slices(seq, max_size) ==
    IF seq = <<>> THEN <<>>
    ELSE <<SubSeq(seq, 1, Min2(max_size, Len(seq)))>> \o
         Slices(SubSeq(seq, Min2(max_size, Len(seq)) + 1, Len(seq)), max_size)

\* draw is the value of rng.random() and shuffled the list rng.shuffle leaves;
\* both are read only on the paths that call the rng
split_large_cluster(cluster, max_size, draw, epsilon, shuffled) ==
    IF Len(cluster) <= max_size THEN <<cluster>>
    ELSE Slices(IF draw < epsilon THEN shuffled ELSE cluster, max_size)

\* ------------------------------------------------------------------------
\* Fine partition (planning/subtasks.py)

SubTask(i, g, lm, sig, rpg) ==
    [id |-> i, goals |-> g, landmark_predicates |-> lm,
     role_signature |-> sig, roles_per_goal |-> rpg]

\* tuple(roles.get(r, None) for r in cfg.cluster_keys); every cluster key of
\* the configurations considered is a role name, so no None arises
KeyTuple(roles, cfg) ==
    [i \in 1..Len(cfg.cluster_keys) |-> roles[cfg.cluster_keys[i]]]

\* the keys of `groups` in insertion order
RECURSIVE GroupKeys(_, _, _, _)
GroupKeys(goals, role_assignments, cfg, seen) ==
    IF goals = <<>> THEN <<>>
    ELSE LET k == KeyTuple(role_assignments[Head(goals)], cfg)
         IN  IF k \in seen
             THEN GroupKeys(Tail(goals), role_assignments, cfg, seen)
             ELSE <<k>> \o GroupKeys(Tail(goals), role_assignments, cfg, seen \cup {k})

\* `groups[(key_tuple, g)] = [g]`: a group per goal
ClusterSubtasks_GroupPerGoal(cluster, role_assignments, cfg, landmarks, next_id) ==
    LET with_roles == SelectSeq(cluster, LAMBDA g : g \in DOMAIN role_assignments)
    IN  [n \in 1..Len(with_roles) |->
            SubTask(next_id + n - 1,
                    <<with_roles[n]>>,
                    landmarks[with_roles[n]],
                    [r \in Range(cfg.cluster_keys) |->
                        Str(role_assignments[with_roles[n]][r])],
                    [g \in {with_roles[n]} |-> role_assignments[g]])]

\* the subtasks one cluster contributes, ids from next_id on
ClusterSubtasks(cluster, role_assignments, cfg, landmarks, next_id) ==
    LET with_roles == SelectSeq(cluster, LAMBDA g : g \in DOMAIN role_assignments)
        keys == GroupKeys(with_roles, role_assignments, cfg, {})
    IN  [n \in 1..Len(keys) |->
            LET group_goals ==
                    SelectSeq(with_roles,
                              LAMBDA g : KeyTuple(role_assignments[g], cfg) = keys[n])
            IN  SubTask(next_id + n - 1,
                        group_goals,
                        UNION {landmarks[g] : g \in Range(group_goals)},
                        [r \in Range(cfg.cluster_keys) |->
                            Str(keys[n][CHOOSE i \in 1..Len(cfg.cluster_keys) :
                                          cfg.cluster_keys[i] = r])],
                        [g \in Range(group_goals) |-> role_assignments[g]])]

RECURSIVE PartitionFrom(_, _, _, _, _)
PartitionFrom(clusters, role_assignments, cfg, landmarks, next_id) ==
    IF clusters = <<>> THEN <<>>
    ELSE LET here == ClusterSubtasks(Head(clusters), role_assignments, cfg,
                                     landmarks, next_id)
         IN  here \o PartitionFrom(Tail(clusters), role_assignments, cfg,
                                   landmarks, next_id + Len(here))

finer_partition_by_roles(clusters, role_assignments, cfg, landmarks) ==
    PartitionFrom(clusters, role_assignments, cfg, landmarks, 0)

\* ------------------------------------------------------------------------
\* Constraint-aware merge (planning/constraint_aware_merge.py)

\* constraints[predicate_name]: from_obj -> set of to_obj
extract_binary_constraints(task, predicate_name) ==
    LET facts == {f \in task.init : f.predicate = predicate_name /\ Len(f.args) >= 2}
    IN  [from_obj \in {f.args[1] : f \in facts} |->
            {f.args[2] : f \in {x \in facts : x.args[1] = from_obj}}]

\* type_constraints[predicate_name]: obj -> type value.  The init sets
\* considered give an object at most one fact of a type predicate, so the
\* dict assignment never overwrites.
extract_unary_type_constraints(task, predicate_name) ==
    LET facts == {f \in task.init : f.predicate = predicate_name /\ Len(f.args) >= 2}
    IN  [obj \in {f.args[1] : f \in facts} |->
            (CHOOSE f \in facts : f.args[1] = obj).args[2]]

AccessibleTo(access_constraint, target_obj) ==
    {from_obj \in DOMAIN access_constraint : target_obj \in access_constraint[from_obj]}

RECURSIVE CommonAccessible(_, _, _)
CommonAccessible(targets, access_constraint, common_accessible) ==
    IF targets = <<>> THEN common_accessible
    ELSE CommonAccessible(Tail(targets), access_constraint,
                          common_accessible \cap AccessibleTo(access_constraint, Head(targets)))

\* the loop over target_objects[1:] is left out
find_common_accessible_objects_FirstTarget(target_objects, access_constraint) ==
    IF target_objects = <<>> THEN {}
    ELSE AccessibleTo(access_constraint, Head(target_objects))

find_common_accessible_objects(target_objects, access_constraint) ==
    IF target_objects = <<>> THEN {}
    ELSE CommonAccessible(Tail(target_objects), access_constraint,
                          AccessibleTo(access_constraint, Head(target_objects)))

\* extract_target_objects / extract_targets
RECURSIVE extract_target_objects(_, _)
extract_target_objects(goals, goal_object_index) ==
    IF goals = <<>> THEN <<>>
    ELSE (IF Len(Head(goals).args) > goal_object_index
          THEN <<Head(goals).args[goal_object_index + 1]>> ELSE <<>>)
         \o extract_target_objects(Tail(goals), goal_object_index)

RequiredTypes(all_targets, type_map) ==
    {type_map[t] : t \in Range(all_targets) \cap DOMAIN type_map}

\* the binary constraint check is left out
is_compatible_for_merging_TypesOnly(subtask1, subtask2, task, max_goals_per_subtask, constraint_config) ==
    LET all_targets ==
            extract_target_objects(subtask1.goals, constraint_config.goal_object_index)
            \o extract_target_objects(subtask2.goals, constraint_config.goal_object_index)
        types == constraint_config.type_constraints
    IN  /\ Len(subtask1.goals) + Len(subtask2.goals) <= max_goals_per_subtask
        /\ \A i \in 1..Len(types) :
               Cardinality(RequiredTypes(
                   all_targets, extract_unary_type_constraints(task, types[i]))) <= 1

is_compatible_for_merging(subtask1, subtask2, task, max_goals_per_subtask, constraint_config) ==
    LET all_targets ==
            extract_target_objects(subtask1.goals, constraint_config.goal_object_index)
            \o extract_target_objects(subtask2.goals, constraint_config.goal_object_index)
        binary == constraint_config.binary_constraints
        types == constraint_config.type_constraints
    IN  /\ Len(subtask1.goals) + Len(subtask2.goals) <= max_goals_per_subtask
        /\ \/ binary = <<>> /\ types = <<>>
           \/ /\ \A i \in 1..Len(binary) :
                     find_common_accessible_objects(
                         all_targets, extract_binary_constraints(task, binary[i])) # {}
              /\ \A i \in 1..Len(types) :
                     Cardinality(RequiredTypes(
                         all_targets, extract_unary_type_constraints(task, types[i]))) <= 1

\* `merged_signature[key] = value1 + "|" + value2`
MergedValue_Concatenated(value1, value2) ==
    IF value1 = value2 THEN value1
    ELSE value1 \o <<"|">> \o value2

MergedValue(value1, value2) ==
    IF value1 = value2 THEN value1
    ELSE JoinBar(SortedStrs(Range(SplitBar(value1)) \cup Range(SplitBar(value2))))

_merge_role_signatures_constraint_aware(signature1, signature2) ==
    [key \in (DOMAIN signature1) \cup (DOMAIN signature2) |->
        IF key \notin DOMAIN signature2 THEN signature1[key]
        ELSE IF key \notin DOMAIN signature1 THEN signature2[key]
        ELSE MergedValue(signature1[key], signature2[key])]

\* multi_objective_merge.py: the same merge, written over signature2.items()
_merge_role_signatures(signature1, signature2) ==
    LET merged_signature == signature1
    IN  [key \in (DOMAIN merged_signature) \cup (DOMAIN signature2) |->
            IF key \in DOMAIN signature2
            THEN IF key \in DOMAIN merged_signature
                 THEN MergedValue(merged_signature[key], signature2[key])
                 ELSE signature2[key]
            ELSE merged_signature[key]]

\* dict.update: the entries of the second mapping win
DictUpdate(d1, d2) == [k \in (DOMAIN d1) \cup (DOMAIN d2) |->
                          IF k \in DOMAIN d2 THEN d2[k] ELSE d1[k]]

\* `merged_goals = subtask1.goals`
_merge_two_first_goals_only(subtask1, subtask2, new_id) ==
    SubTask(new_id,
            subtask1.goals,
            subtask1.landmark_predicates \cup subtask2.landmark_predicates,
            _merge_role_signatures_constraint_aware(subtask1.role_signature,
                                                    subtask2.role_signature),
            DictUpdate(subtask1.roles_per_goal, subtask2.roles_per_goal))

_merge_two_constraint_aware(subtask1, subtask2, new_id) ==
    SubTask(new_id,
            subtask1.goals \o subtask2.goals,
            subtask1.landmark_predicates \cup subtask2.landmark_predicates,
            _merge_role_signatures_constraint_aware(subtask1.role_signature,
                                                    subtask2.role_signature),
            DictUpdate(subtask1.roles_per_goal, subtask2.roles_per_goal))

\* `combined_landmarks = subtask1.landmark_predicates`
_merge_two_landmarks_of_first(subtask1, subtask2, new_id) ==
    SubTask(new_id,
            subtask1.goals \o subtask2.goals,
            subtask1.landmark_predicates,
            _merge_role_signatures(subtask1.role_signature, subtask2.role_signature),
            DictUpdate(subtask1.roles_per_goal, subtask2.roles_per_goal))

\* multi_objective_merge.py; task and constraint_config are not read
_merge_two_strategic(subtask1, subtask2, new_id) ==
    LET combined_goals == subtask1.goals \o subtask2.goals
        combined_landmarks ==
            subtask1.landmark_predicates \cup subtask2.landmark_predicates
        role_signature ==
            _merge_role_signatures(subtask1.role_signature, subtask2.role_signature)
        combined_roles_per_goal ==
            DictUpdate(DictUpdate(EmptyMap, subtask1.roles_per_goal),
                       subtask2.roles_per_goal)
    IN  SubTask(new_id, combined_goals, combined_landmarks, role_signature,
                combined_roles_per_goal)

RemoveAt(seq, i) == SubSeq(seq, 1, i - 1) \o SubSeq(seq, i + 1, Len(seq))

\* the inner while of _merge_group_with_constraints: `current` absorbs every
\* compatible candidate of `remaining` from position i on
RECURSIVE AbsorbCandidates(_, _, _, _, _, _, _)
AbsorbCandidates(current, remaining, i, next_id, task, max_goals, cc) ==
    IF i > Len(remaining)
    THEN [current |-> current, remaining |-> remaining, next_id |-> next_id]
    ELSE IF is_compatible_for_merging(current, remaining[i], task, max_goals, cc)
         THEN AbsorbCandidates(_merge_two_constraint_aware(current, remaining[i], next_id),
                               RemoveAt(remaining, i), i, next_id + 1, task, max_goals, cc)
         ELSE AbsorbCandidates(current, remaining, i + 1, next_id, task, max_goals, cc)

RECURSIVE _merge_group_with_constraints(_, _, _, _, _)
_merge_group_with_constraints(group, task, max_goals_per_subtask, start_id, constraint_config) ==
    IF group = <<>> THEN <<>>
    ELSE LET r == AbsorbCandidates(Head(group), Tail(group), 1, start_id, task,
                                   max_goals_per_subtask, constraint_config)
         IN  <<r.current>> \o
             _merge_group_with_constraints(r.remaining, task, max_goals_per_subtask,
                                           r.next_id, constraint_config)

MaxId(subtasks) ==
    CHOOSE m \in {subtasks[i].id : i \in 1..Len(subtasks)} :
        \A i \in 1..Len(subtasks) : subtasks[i].id <= m

\* the keys of signature_groups in insertion order
RECURSIVE SignatureKeys(_, _)
SignatureKeys(subtasks, seen) ==
    IF subtasks = <<>> THEN <<>>
    ELSE IF Head(subtasks).role_signature \in seen
         THEN SignatureKeys(Tail(subtasks), seen)
         ELSE <<Head(subtasks).role_signature>> \o
              SignatureKeys(Tail(subtasks), seen \cup {Head(subtasks).role_signature})

\* the loop over signature_groups.items() from group number n on
RECURSIVE MergeGroupsFrom(_, _, _, _, _, _, _)
MergeGroupsFrom(subtasks, keys, n, next_id, task, max_goals, cc) ==
    IF n > Len(keys) THEN <<>>
    ELSE LET group == SelectSeq(subtasks, LAMBDA s : s.role_signature = keys[n])
         IN  IF Len(group) = 1
             THEN group \o MergeGroupsFrom(subtasks, keys, n + 1, next_id, task, max_goals, cc)
             ELSE LET group_merged ==
                          _merge_group_with_constraints(group, task, max_goals, next_id, cc)
                  IN  group_merged \o
                      MergeGroupsFrom(subtasks, keys, n + 1,
                                      next_id + Len(group_merged), task, max_goals, cc)

_merge_within_same_role_signature(subtasks, task, max_goals_per_subtask, constraint_config) ==
    MergeGroupsFrom(subtasks, SignatureKeys(subtasks, {}), 1, MaxId(subtasks) + 1,
                    task, max_goals_per_subtask, constraint_config)

\* the pass without `used.add(best_partner_idx)`
RECURSIVE AcrossPass_PartnerKept(_, _, _, _, _, _, _, _, _)
AcrossPass_PartnerKept(merged, i, used, new_merged, next_id, changed, task, max_goals, cc) ==
    IF i > Len(merged)
    THEN [merged |-> new_merged, next_id |-> next_id, changed |-> changed]
    ELSE IF i \in used
         THEN AcrossPass_PartnerKept(merged, i + 1, used, new_merged, next_id, changed,
                                     task, max_goals, cc)
         ELSE LET partners ==
                      {j \in (i + 1)..Len(merged) :
                          /\ j \notin used
                          /\ is_compatible_for_merging(merged[i], merged[j], task,
                                                       max_goals, cc)}
              IN  IF partners # {}
                  THEN LET best_partner_idx ==
                               CHOOSE j \in partners : \A k \in partners : j <= k
                       IN  AcrossPass_PartnerKept(
                               merged, i + 1, used \cup {i},
                               Append(new_merged,
                                      _merge_two_constraint_aware(
                                          merged[i], merged[best_partner_idx], next_id)),
                               next_id + 1, TRUE, task, max_goals, cc)
                  ELSE AcrossPass_PartnerKept(merged, i + 1, used \cup {i},
                                              Append(new_merged, merged[i]),
                                              next_id, changed, task, max_goals, cc)

\* one pass of the for loop of _merge_compatible_across_roles, from index i
RECURSIVE AcrossPass(_, _, _, _, _, _, _, _, _)
AcrossPass(merged, i, used, new_merged, next_id, changed, task, max_goals, cc) ==
    IF i > Len(merged)
    THEN [merged |-> new_merged, next_id |-> next_id, changed |-> changed]
    ELSE IF i \in used
         THEN AcrossPass(merged, i + 1, used, new_merged, next_id, changed,
                         task, max_goals, cc)
         ELSE LET partners ==
                      {j \in (i + 1)..Len(merged) :
                          /\ j \notin used
                          /\ is_compatible_for_merging(merged[i], merged[j], task,
                                                       max_goals, cc)}
              IN  IF partners # {}
                  THEN LET best_partner_idx ==
                               CHOOSE j \in partners : \A k \in partners : j <= k
                       IN  AcrossPass(merged, i + 1, used \cup {i, best_partner_idx},
                                      Append(new_merged,
                                             _merge_two_constraint_aware(
                                                 merged[i], merged[best_partner_idx], next_id)),
                                      next_id + 1, TRUE, task, max_goals, cc)
                  ELSE AcrossPass(merged, i + 1, used \cup {i},
                                  Append(new_merged, merged[i]),
                                  next_id, changed, task, max_goals, cc)

\* while changed
\* one pass of the while loop only
AcrossLoop_OnePass(merged, next_id, task, max_goals, cc) ==
    AcrossPass(merged, 1, {}, <<>>, next_id, FALSE, task, max_goals, cc).merged

RECURSIVE AcrossLoop(_, _, _, _, _)
AcrossLoop(merged, next_id, task, max_goals, cc) ==
    LET pass == AcrossPass(merged, 1, {}, <<>>, next_id, FALSE, task, max_goals, cc)
    IN  IF pass.changed
        THEN AcrossLoop(pass.merged, pass.next_id, task, max_goals, cc)
        ELSE pass.merged

_merge_compatible_across_roles(subtasks, task, max_goals_per_subtask, constraint_config) ==
    AcrossLoop(subtasks, MaxId(subtasks) + 1, task, max_goals_per_subtask, constraint_config)

ScoreGoalBase == 10

_compatibility_score_with_constraints(subtask1, subtask2, task, constraint_config) ==
    LET all_targets ==
            extract_target_objects(subtask1.goals, constraint_config.goal_object_index)
            \o extract_target_objects(subtask2.goals, constraint_config.goal_object_index)
        binary == constraint_config.binary_constraints
        types == constraint_config.type_constraints
        BinaryScore[i \in 0..Len(binary)] ==
            IF i = 0 THEN 0
            ELSE BinaryScore[i - 1] +
                 Cardinality(find_common_accessible_objects(
                     all_targets, extract_binary_constraints(task, binary[i]))) * 10
        TypeScore[i \in 0..Len(types)] ==
            IF i = 0 THEN 0
            ELSE TypeScore[i - 1] +
                 (IF Cardinality(RequiredTypes(
                         all_targets, extract_unary_type_constraints(task, types[i]))) <= 1
                  THEN 20 ELSE 0)
    IN  BinaryScore[Len(binary)] + TypeScore[Len(types)]
        + Cardinality(subtask1.landmark_predicates \cap subtask2.landmark_predicates) * 2
        + (ScoreGoalBase - (Len(subtask1.goals) + Len(subtask2.goals)))

\* `best_pair = (i, j); break` at the first compatible pair
BestPair_FirstCompatible(merged, task, max_goals, cc) ==
    LET pairs == {p \in (1..Len(merged)) \X (1..Len(merged)) :
                    /\ p[1] < p[2]
                    /\ is_compatible_for_merging(merged[p[1]], merged[p[2]], task,
                                                 max_goals, cc)}
        Before(p, q) == p[1] < q[1] \/ (p[1] = q[1] /\ p[2] <= q[2])
    IN  IF pairs = {} THEN <<>>
        ELSE CHOOSE p \in pairs : \A q \in pairs : Before(p, q)

\* the pair the double loop of _aggressive_constraint_aware_merge leaves in
\* best_pair: the first compatible pair, in (i, j) order, of maximal score
BestPair(merged, task, max_goals, cc) ==
    LET pairs == {p \in (1..Len(merged)) \X (1..Len(merged)) :
                    /\ p[1] < p[2]
                    /\ is_compatible_for_merging(merged[p[1]], merged[p[2]], task,
                                                 max_goals, cc)}
        Score(p) == _compatibility_score_with_constraints(merged[p[1]], merged[p[2]],
                                                          task, cc)
        Before(p, q) == p[1] < q[1] \/ (p[1] = q[1] /\ p[2] <= q[2])
    IN  IF pairs = {} THEN <<>>
        ELSE CHOOSE p \in pairs :
                \A q \in pairs : Score(q) < Score(p) \/ (Score(q) = Score(p) /\ Before(p, q))

RECURSIVE AggressiveLoop(_, _, _, _, _, _)
AggressiveLoop(merged, next_id, task, max_goals, target_count, cc) ==
    IF Len(merged) <= target_count THEN merged
    ELSE LET best_pair == BestPair(merged, task, max_goals, cc)
         IN  IF best_pair = <<>> THEN merged
             ELSE AggressiveLoop(
                      Append(RemoveAt(RemoveAt(merged, best_pair[2]), best_pair[1]),
                             _merge_two_constraint_aware(
                                 merged[best_pair[1]], merged[best_pair[2]], next_id)),
                      next_id + 1, task, max_goals, target_count, cc)

_aggressive_constraint_aware_merge(subtasks, task, max_goals_per_subtask, target_count, constraint_config) ==
    AggressiveLoop(subtasks, MaxId(subtasks) + 1, task, max_goals_per_subtask,
                   target_count, constraint_config)

\* target_subtask_count is an int here; `if target_subtask_count and ...`
\* is false for 0
constraint_aware_merge_subtasks(subtasks, task, max_goals_per_subtask, target_subtask_count, constraint_config) ==
    IF subtasks = <<>> THEN subtasks
    ELSE LET phase1 == _merge_within_same_role_signature(
                           subtasks, task, max_goals_per_subtask, constraint_config)
             phase2 == _merge_compatible_across_roles(
                           phase1, task, max_goals_per_subtask, constraint_config)
         IN  IF target_subtask_count # 0 /\ Len(phase2) > target_subtask_count
             THEN _aggressive_constraint_aware_merge(
                      phase2, task, max_goals_per_subtask, target_subtask_count,
                      constraint_config)
             ELSE phase2

\* ------------------------------------------------------------------------
\* Agent roles (planning/roles.py, extract_agent_roles)

AgentBindingOk(atom, agent_name, agent_roles, bind) ==
    /\ bind.idx < Len(atom.args)
    /\ IF bind.kind = "agent"
       THEN atom.args[bind.idx + 1] = (IF bind.name = "self" THEN agent_name ELSE bind.name)
       ELSE /\ bind.kind = "role"
            /\ bind.name \in DOMAIN agent_roles
            /\ atom.args[bind.idx + 1] = agent_roles[bind.name]

AgentRoleCandidates(task, agent_name, agent_roles, extractor) ==
    {atom.args[extractor.value_arg + 1] :
        atom \in {a \in task.init :
                    /\ a.predicate = extractor.predicate
                    /\ \A bind \in extractor.bindings :
                          AgentBindingOk(a, agent_name, agent_roles, bind)
                    /\ extractor.value_arg < Len(a.args)}}

RECURSIVE AgentRoleRound(_, _, _, _, _, _)
AgentRoleRound(task, agent_name, extractors, visit, agent_roles, changed) ==
    IF visit = <<>> THEN [roles |-> agent_roles, changed |-> changed]
    ELSE LET role_name == Head(visit)
             candidates == AgentRoleCandidates(task, agent_name, agent_roles,
                                               extractors[role_name])
         IN  IF candidates = {}
             THEN AgentRoleRound(task, agent_name, extractors, Tail(visit),
                                 agent_roles, changed)
             ELSE AgentRoleRound(task, agent_name, extractors, Tail(visit),
                                 agent_roles @@ (role_name :> MinStr(candidates)), TRUE)

RECURSIVE AgentRoleLoop(_, _, _, _, _, _, _)
AgentRoleLoop(task, agent_name, extractors, role_order, agent_roles, changed, iteration) ==
    LET remaining_roles == (DOMAIN extractors) \ (DOMAIN agent_roles)
    IN  IF remaining_roles # {} /\ changed /\ iteration < MaxRoleIterations
        THEN LET visit == SelectSeq(role_order, LAMBDA r : r \in remaining_roles)
                 res == AgentRoleRound(task, agent_name, extractors, visit,
                                       agent_roles, FALSE)
             IN  AgentRoleLoop(task, agent_name, extractors, role_order,
                               res.roles, res.changed, iteration + 1)
        ELSE agent_roles

\* cfg.agent_role_extractors is a mapping role name -> extractor; has_agent_role_extractors
\* is false when the configuration has no such section (None)
extract_agent_roles(task, agent_name, cfg, role_order) ==
    IF ~cfg.has_agent_role_extractors THEN EmptyMap
    ELSE AgentRoleLoop(task, agent_name, cfg.agent_role_extractors, role_order,
                       EmptyMap, TRUE, 0)

\* ------------------------------------------------------------------------
\* Allocation (planning/allocation.py)

\* `return False` for a role the agent has no value for
can_execute_subtask_MissingRoleInfeasible(subtask, agent_name, agent_roles) ==
    \/ agent_name \notin DOMAIN agent_roles
    \/ \A role_key \in DOMAIN subtask.role_signature :
          /\ role_key \in DOMAIN agent_roles[agent_name]
          /\ LET required_value == subtask.role_signature[role_key]
                 agent_value == Str(agent_roles[agent_name][role_key])
             IN  IF HasBar(required_value)
                 THEN agent_value \in Range(SplitBar(required_value))
                 ELSE agent_value = required_value

can_execute_subtask(subtask, agent_name, agent_roles) ==
    \/ agent_name \notin DOMAIN agent_roles
    \/ \A role_key \in DOMAIN subtask.role_signature :
          \/ role_key \notin DOMAIN agent_roles[agent_name]
          \/ LET required_value == subtask.role_signature[role_key]
                 agent_value == Str(agent_roles[agent_name][role_key])
             IN  IF HasBar(required_value)
                 THEN agent_value \in Range(SplitBar(required_value))
                 ELSE agent_value = required_value

\* a cost is +infinity (inf) or the fraction 1 / den; error: NotImplementedError
compute_cost(subtask, agent_name, capabilities, agent_roles, mode) ==
    IF ~can_execute_subtask(subtask, agent_name, agent_roles)
    THEN [inf |-> TRUE, den |-> 1, error |-> FALSE]
    ELSE IF mode = "inverse_capability_size"
         THEN [inf |-> FALSE,
               den |-> 1 + Cardinality(IF agent_name \in DOMAIN capabilities
                                       THEN capabilities[agent_name] ELSE {}),
               error |-> FALSE]
         ELSE [inf |-> FALSE, den |-> 1, error |-> TRUE]

\* c1 < c2 and c1 == c2 for two costs
CostLess(c1, c2) == ~c1.inf /\ (c2.inf \/ c2.den < c1.den)
CostEq(c1, c2) == (c1.inf /\ c2.inf) \/ (~c1.inf /\ ~c2.inf /\ c1.den = c2.den)

\* the inner loop without the `elif cost == best_cost` branch
RECURSIVE BestAgents_TiesIgnored(_, _, _, _, _, _, _)
BestAgents_TiesIgnored(subtask, agents, capabilities, agent_roles, mode, best_cost, best_agents) ==
    IF agents = <<>> THEN best_agents
    ELSE LET cost == compute_cost(subtask, Head(agents), capabilities, agent_roles, mode)
         IN  IF CostLess(cost, best_cost)
             THEN BestAgents_TiesIgnored(subtask, Tail(agents), capabilities, agent_roles,
                                         mode, cost, <<Head(agents)>>)
             ELSE BestAgents_TiesIgnored(subtask, Tail(agents), capabilities, agent_roles,
                                         mode, best_cost, best_agents)

\* the inner loop over capabilities.keys(): best_agents after the agents of `agents`
RECURSIVE BestAgents(_, _, _, _, _, _, _)
BestAgents(subtask, agents, capabilities, agent_roles, mode, best_cost, best_agents) ==
    IF agents = <<>> THEN best_agents
    ELSE LET cost == compute_cost(subtask, Head(agents), capabilities, agent_roles, mode)
         IN  IF CostLess(cost, best_cost)
             THEN BestAgents(subtask, Tail(agents), capabilities, agent_roles, mode,
                             cost, <<Head(agents)>>)
             ELSE IF CostEq(cost, best_cost) /\ ~cost.inf
                  THEN BestAgents(subtask, Tail(agents), capabilities, agent_roles, mode,
                                  best_cost, Append(best_agents, Head(agents)))
                  ELSE BestAgents(subtask, Tail(agents), capabilities, agent_roles, mode,
                                  best_cost, best_agents)

\* the loop with `chosen = min(capabilities.keys())` when best_agents is empty
RECURSIVE AllocateFrom_Fallback(_, _, _, _, _, _)
AllocateFrom_Fallback(subtasks, agents, capabilities, agent_roles, mode, assignment) ==
    IF subtasks = <<>> THEN [raised |-> FALSE, assignment |-> assignment]
    ELSE IF \E n \in 1..Len(agents) :
               compute_cost(Head(subtasks), agents[n], capabilities, agent_roles, mode).error
         THEN [raised |-> TRUE, assignment |-> EmptyMap]
         ELSE LET best_agents ==
                      BestAgents(Head(subtasks), agents, capabilities, agent_roles, mode,
                                 [inf |-> TRUE, den |-> 1, error |-> FALSE], <<>>)
                  chosen == MinStr(Range(IF best_agents # <<>> THEN best_agents ELSE agents))
              IN  IF agents # <<>>
                  THEN AllocateFrom_Fallback(Tail(subtasks), agents, capabilities,
                                             agent_roles, mode,
                                             DictUpdate(assignment,
                                                        (Head(subtasks).id :> chosen)))
                  ELSE [raised |-> TRUE, assignment |-> EmptyMap]

\* the loop over subtasks; raised: RuntimeError (no agent) or NotImplementedError
RECURSIVE AllocateFrom(_, _, _, _, _, _)
AllocateFrom(subtasks, agents, capabilities, agent_roles, mode, assignment) ==
    IF subtasks = <<>> THEN [raised |-> FALSE, assignment |-> assignment]
    ELSE IF \E n \in 1..Len(agents) :
               compute_cost(Head(subtasks), agents[n], capabilities, agent_roles, mode).error
         THEN [raised |-> TRUE, assignment |-> EmptyMap]
         ELSE LET best_agents ==
                      BestAgents(Head(subtasks), agents, capabilities, agent_roles, mode,
                                 [inf |-> TRUE, den |-> 1, error |-> FALSE], <<>>)
              IN  IF best_agents # <<>>
                  THEN AllocateFrom(Tail(subtasks), agents, capabilities, agent_roles, mode,
                                    DictUpdate(assignment,
                                               (Head(subtasks).id :> MinStr(Range(best_agents)))))
                  ELSE [raised |-> TRUE, assignment |-> EmptyMap]

\* agents: capabilities.keys() in dict order
allocate_subtasks(subtasks, capabilities, task, role_config, cost_mode, agents, role_order) ==
    AllocateFrom(subtasks, agents, capabilities,
                 [a \in Range(agents) |-> extract_agent_roles(task, a, role_config, role_order)],
                 cost_mode, EmptyMap)

\* ------------------------------------------------------------------------
\* The pipeline as a state machine: cli/main.py runs build_subtasks_with_retry
\* (one step per retry attempt) and then allocate_subtasks.

VARIABLES
    task,             \* PlanningTask: init, goals, predicates, actions
    role_cfg,         \* DomainRoleConfig
    on_missing_role,  \* RolesConfigRef.on_missing_role
    cfg_cluster,      \* ClusteringConfig
    capabilities,     \* AgentCapabilities: agent name -> set of action names
    agent_order,      \* capabilities.keys() in dict order
    iter_order,       \* iteration order of a set of goals in this run
    role_order,       \* iteration order of a set of role names in this run
    pc,               \* "loop", "returned", "unsat", "role_error", "allocated", "alloc_error"
    retry,            \* index of the next attempt of the for loop
    epsilon,          \* the local epsilon of build_subtasks_with_retry
    eps_used,         \* the epsilon each attempt so far ran with
    partitioned,      \* the local subtasks after finer_partition_by_roles (line 107)
    subtasks,         \* the local subtasks after the merge / the list returned
    assignment,       \* SubtaskAssignment: subtask id -> agent name
    call              \* a function called on its own: its arguments and its result

inputs == <<task, role_cfg, on_missing_role, cfg_cluster, capabilities, agent_order,
            iter_order, role_order>>
vars == <<task, role_cfg, on_missing_role, cfg_cluster, capabilities, agent_order,
          iter_order, role_order, pc, retry, epsilon, eps_used, partitioned, subtasks,
          assignment, call>>

\* 1.0 in the unit epsilon and rng.random() are counted in
EpsOne == 2

\* landmarks of build_subtasks_with_retry (lines 78-80)
RunLandmarks ==
    IF cfg_cluster.use_landmarks
    THEN compute_landmarks(task, build_causal_graph(task), cfg_cluster.landmark_max_depth)
    ELSE [g \in task.goals |-> {}]

\* struct_clusters (lines 85-88) when sets of goals iterate in `order`
StructClustersIn(order) ==
    connected_components(
        build_goal_graph(task.goals, build_causal_graph(task), RunLandmarks,
                         cfg_cluster.use_landmarks),
        ListOf(task.goals, order))

\* struct_clusters of this run
StructClusters == StructClustersIn(iter_order)

\* constraint_config (lines 115-119); `x or [default]` takes the default for
\* None and for the empty list
RunConstraintConfig ==
    [binary_constraints |->
        IF cfg_cluster.constraint_binary_predicates = <<>> THEN <<"reachable">>
        ELSE cfg_cluster.constraint_binary_predicates,
     type_constraints |->
        IF cfg_cluster.constraint_type_predicates = <<>> THEN <<"weld_type">>
        ELSE cfg_cluster.constraint_type_predicates,
     goal_object_index |-> cfg_cluster.constraint_goal_object_index]

\* the components that split_large_cluster slices, and so draws for
LargeComponents(comps) ==
    {i \in 1..Len(comps) : Cardinality(comps[i]) > cfg_cluster.max_cluster_size}

\* the body of one attempt after struct_clusters (lines 89-129) when sets of
\* goals iterate in `order`: draws[i] is rng.random() for component i and
\* shuffle_order the order rng.shuffle leaves
AttemptResultIn(order, comps, landmarks, draws, shuffle_order) ==
    LET clusters ==
            Flatten([i \in 1..Len(comps) |->
                split_large_cluster(ListOf(comps[i], order),
                                    cfg_cluster.max_cluster_size,
                                    IF i \in DOMAIN draws THEN draws[i] ELSE 0,
                                    epsilon,
                                    ListOf(comps[i], shuffle_order))])
        role_assignments ==
            extract_roles_for_goals(task, role_cfg, task.goals, on_missing_role, role_order)
        fine == finer_partition_by_roles(clusters, role_assignments.result, role_cfg,
                                         landmarks)
    IN  [raised |-> role_assignments.raised,
         partitioned |-> IF role_assignments.raised THEN <<>> ELSE fine,
         subtasks |->
            IF role_assignments.raised THEN <<>>
            ELSE IF cfg_cluster.merge_compatible_subtasks
                 THEN constraint_aware_merge_subtasks(
                          fine, task, cfg_cluster.max_goals_per_subtask,
                          cfg_cluster.max_subtasks, RunConstraintConfig)
                 ELSE fine]

\* the body of one attempt of this run
AttemptResult(comps, landmarks, draws, shuffle_order) ==
    AttemptResultIn(iter_order, comps, landmarks, draws, shuffle_order)

\* `len(subtasks) <= cfg_cluster.max_subtasks + 1`
ReturnCheck_OffByOne(result) == Len(result) <= cfg_cluster.max_subtasks + 1

\* `if subtasks and len(subtasks) <= cfg_cluster.max_subtasks`
ReturnCheck_NonEmpty(result) == result # <<>> /\ Len(result) <= cfg_cluster.max_subtasks

\* the test of line 131
ReturnCheck(result) == Len(result) <= cfg_cluster.max_subtasks

\* `epsilon = epsilon + cfg_cluster.epsilon_step`
NextEpsilon_Uncapped(eps) == eps + cfg_cluster.epsilon_step

\* the update is left out
NextEpsilon_Kept(eps) == eps

\* the update of line 135
NextEpsilon(eps) == Min2(EpsOne, eps + cfg_cluster.epsilon_step)

\* the results one attempt can have: one for every value rng.random() can
\* give for each component that is split and every order rng.shuffle can leave
AttemptOutcomes ==
    LET comps == StructClusters
        landmarks == RunLandmarks
        large == LargeComponents(comps)
    IN  UNION {{AttemptResult(comps, landmarks, draws, shuffle_order) :
                   shuffle_order \in (IF \E i \in large : draws[i] < epsilon
                                      THEN Perms(task.goals) ELSE {iter_order})} :
               draws \in [large -> 0..(EpsOne - 1)]}

\* one iteration of `for retry in range(max_retries + 1)` (lines 83-135)
Attempt ==
    /\ pc = "loop"
    /\ retry <= cfg_cluster.max_retries
    /\ \E res \in AttemptOutcomes :
          /\ eps_used' = Append(eps_used, epsilon)
          /\ IF res.raised
             THEN /\ pc' = "role_error"
                  /\ UNCHANGED <<retry, epsilon, partitioned, subtasks>>
             ELSE /\ partitioned' = res.partitioned
                  /\ subtasks' = res.subtasks
                  /\ IF ReturnCheck(res.subtasks)
                     THEN /\ pc' = "returned"
                          /\ UNCHANGED <<retry, epsilon>>
                     ELSE /\ pc' = "loop"
                          /\ retry' = retry + 1
                          /\ epsilon' = NextEpsilon(epsilon)
    /\ UNCHANGED <<inputs, assignment, call>>

\* the raise after the loop (lines 138-141)
RaiseUnsat ==
    /\ pc = "loop"
    /\ retry > cfg_cluster.max_retries
    /\ pc' = "unsat"
    /\ UNCHANGED <<inputs, retry, epsilon, eps_used, partitioned, subtasks, assignment, call>>

\* allocate_subtasks on the returned list (cli/main.py line 64)
Allocate ==
    /\ pc = "returned"
    /\ LET res == allocate_subtasks(subtasks, capabilities, task, role_cfg,
                                    "inverse_capability_size", agent_order, role_order)
       IN  /\ assignment' = res.assignment
           /\ pc' = IF res.raised THEN "alloc_error" ELSE "allocated"
    /\ UNCHANGED <<inputs, retry, epsilon, eps_used, partitioned, subtasks, call>>

Next == Attempt \/ RaiseUnsat \/ Allocate

\* ------------------------------------------------------------------------
\* The inputs of a run

Reachable(r, t) == GroundAtom("reachable", <<r, t>>)
WeldType(t, ty) == GroundAtom("weld_type", <<t, ty>>)
Robot(r) == GroundAtom("robot", <<r>>)
Weld(t) == GroundAtom("weld", <<t>>)
Paint(t) == GroundAtom("paint", <<t>>)

Predicates == {"weld", "paint", "reachable", "weld_type", "robot"}

\* do_weld: reachable => weld;  do_paint: weld => paint
ActionsChain ==
    {[name |-> "do_weld", pre |-> {"reachable"}, add |-> {"weld"}],
     [name |-> "do_paint", pre |-> {"weld"}, add |-> {"paint"}]}

PlanningTask(init, goals, actions) ==
    [init |-> init, goals |-> goals, predicates |-> Predicates, actions |-> actions]

\* role loc of a goal: the x of an init fact reachable(x, goal.args[0]);
\* role loc of an agent: the x of an init fact robot(x) with x the agent
DomainRoleConfig(goal_predicates, has_agent_role_extractors) ==
    [goal_predicates |-> goal_predicates,
     roles |-> [loc |-> <<ExtractorConfig("reachable", {Binding(1, "goal", 0, "")}, 0)>>],
     cluster_keys |-> <<"loc">>,
     has_agent_role_extractors |-> has_agent_role_extractors,
     agent_role_extractors |->
        [loc |-> ExtractorConfig("robot", {Binding(0, "agent", 0, "self")}, 0)]]

ClusteringConfig(max_cluster_size, max_subtasks, epsilon_start, epsilon_step, max_retries, merge, max_goals_per_subtask, use_landmarks) ==
    [use_landmarks |-> use_landmarks,
     landmark_max_depth |-> 3,
     max_cluster_size |-> max_cluster_size,
     max_subtasks |-> max_subtasks,
     epsilon_start |-> epsilon_start,
     epsilon_step |-> epsilon_step,
     max_retries |-> max_retries,
     merge_compatible_subtasks |-> merge,
     max_goals_per_subtask |-> max_goals_per_subtask,
     constraint_binary_predicates |-> <<>>,
     constraint_type_predicates |-> <<>>,
     constraint_goal_object_index |-> 0]

\* bounds of the inputs
MaxClusterSize == 2
MaxGoalsPerSubtask == 3
MaxSubtasks == 3
MaxRetries == 2

\* the state in which build_subtasks_with_retry enters its loop (line 82)
InitRun(t, rc, omr, cc, caps, ao, io) ==
    /\ task = t
    /\ role_cfg = rc
    /\ on_missing_role = omr
    /\ cfg_cluster = cc
    /\ capabilities = caps
    /\ agent_order = ao
    /\ iter_order = io
    /\ role_order = <<"loc">>
    /\ pc = "loop"
    /\ retry = 0
    /\ epsilon = cc.epsilon_start
    /\ eps_used = <<>>
    /\ partitioned = <<>>
    /\ subtasks = <<>>
    /\ assignment = EmptyMap
    /\ call = [op |-> "main"]

TwoAgents == ("r1" :> {"weld"}) @@ ("r2" :> {"move", "paint", "weld"})

\* tasks and role configurations vary; the retry schedule is fixed
InitTasks ==
    \E goals \in SUBSET {Weld("a"), Weld("b"), Paint("b")} :
    \E reach \in SUBSET {Reachable("r1", "a"), Reachable("r2", "a"), Reachable("r2", "b")} :
    \E types \in {{}, {WeldType("a", "t1"), WeldType("b", "t2")}} :
    \E io \in Perms(goals) :
    \E mcs \in 1..MaxClusterSize, mg \in 1..MaxGoalsPerSubtask :
    \E omr \in {"error", "skip_goal"} :
    \E gp \in {{"weld", "paint"}, {"weld"}} :
        InitRun(PlanningTask(reach \cup types \cup {Robot("r1")}, goals, {}),
                DomainRoleConfig(gp, TRUE), omr,
                ClusteringConfig(mcs, 2, 0, EpsOne, 1, TRUE, mg, FALSE),
                TwoAgents, <<"r1", "r2">>, io)

AllReach(robots, targets) == {Reachable(r, t) : r \in robots, t \in targets}

\* the retry schedule and the caps vary over a few tasks whose subtask count
\* depends on the order of the slices
InitRetry ==
    \E goals \in {{Weld("a"), Weld("b"), Paint("b")}, {Weld("a"), Weld("b")}} :
    \E mcs \in 1..MaxClusterSize :
    \E ms \in 0..MaxSubtasks, mr \in 0..MaxRetries :
    \E es \in {0, 1, EpsOne + 1}, est \in {-1, 0, 1, EpsOne} :
    \E merge \in BOOLEAN :
        InitRun(PlanningTask({Reachable("r1", "a"), Reachable("r2", "b"), Robot("r1")},
                             goals, ActionsChain),
                DomainRoleConfig({"weld", "paint"}, FALSE), "error",
                ClusteringConfig(mcs, ms, es, est, mr, merge, 2, TRUE),
                TwoAgents, <<"r1", "r2">>,
                ListOf(goals, <<Weld("a"), Weld("b"), Paint("b")>>))

CapabilitySets == {{}, {"weld"}, {"move", "paint", "weld"}}

\* agents, capabilities and agent role facts vary
InitAlloc ==
    \E goals \in {{Weld("a"), Weld("b")}, {Weld("a"), Paint("b")}} :
    \E reach \in {{Reachable("r1", "a"), Reachable("r1", "b")},
                   {Reachable("r1", "a"), Reachable("r2", "b")},
                   {Reachable("r1", "a"), Reachable("r1", "b"), Reachable("r2", "b")},
                   {Reachable("r2", "b")}} :
    \E robots \in SUBSET {Robot("r1"), Robot("r2")} :
    \E agents \in SUBSET {"r1", "r2"} :
    \E caps \in [agents -> CapabilitySets] :
    \E ao \in Perms(agents) :
    \E has \in BOOLEAN, ms \in {1, MaxSubtasks} :
        InitRun(PlanningTask(reach \cup robots, goals, {}),
                DomainRoleConfig({"weld", "paint"}, has), "skip_goal",
                ClusteringConfig(1, ms, 0, 0, 0, TRUE, 2, FALSE),
                caps, ao, ListOf(goals, <<Weld("a"), Weld("b"), Paint("b")>>))

\* five goals in five fine subtasks
InitFive ==
    \E io \in {<<Weld("a"), Weld("b"), Weld("c"), Paint("d"), Paint("e")>>,
                <<Paint("e"), Weld("c"), Paint("d"), Weld("a"), Weld("b")>>} :
    \E reach \in {AllReach({"r1"}, {"a", "b", "c"}) \cup AllReach({"r2"}, {"d", "e"}),
                   AllReach({"r1"}, {"a", "b", "c", "d"}) \cup AllReach({"r2"}, {"d", "e"}),
                   AllReach({"r1", "r2"}, {"a", "b", "c", "d", "e"})} :
    \E mcs \in 1..MaxClusterSize, mg \in 2..MaxGoalsPerSubtask :
    \E ms \in 1..MaxSubtasks :
    \E caps \in {TwoAgents, ("r1" :> {"weld"})} :
        InitRun(PlanningTask(reach \cup {Robot("r1"), Robot("r2")},
                             {Weld("a"), Weld("b"), Weld("c"), Paint("d"), Paint("e")}, {}),
                DomainRoleConfig({"weld", "paint"}, TRUE), "error",
                ClusteringConfig(mcs, ms, 0, 0, 0, TRUE, mg, FALSE),
                caps, SortedNames(DOMAIN caps), io)

\* problems with no goal, one goal and two goals, for any set of agents
InitEmpty ==
    \E goals \in {{}, {Weld("a")}, {Weld("a"), Weld("b")}} :
    \E ms \in 0..MaxSubtasks, mr \in 0..MaxRetries :
    \E merge \in BOOLEAN, lm \in BOOLEAN :
    \E agents \in SUBSET {"r1", "r2"} :
    \E caps \in [agents -> {{}, {"weld"}}] :
    \E ao \in Perms(agents) :
        InitRun(PlanningTask({Reachable("r1", "a"), Reachable("r2", "b"), Robot("r1")},
                             goals, ActionsChain),
                DomainRoleConfig({"weld", "paint"}, TRUE), "error",
                ClusteringConfig(1, ms, 0, 1, mr, merge, 2, lm),
                caps, ao, ListOf(goals, <<Weld("a"), Weld("b")>>))

SpecTasks == InitTasks /\ [][Next]_vars
SpecRetry == InitRetry /\ [][Next]_vars
SpecAlloc == InitAlloc /\ [][Next]_vars
SpecFive == InitFive /\ [][Next]_vars
SpecEmpty == InitEmpty /\ [][Next]_vars

\* ------------------------------------------------------------------------
\* Properties

\* build_subtasks_with_retry has returned its list
Returned == pc \in {"returned", "allocated", "alloc_error"}

\* the goals of a list of subtasks, as a set
GoalsOf(list) == UNION {Range(list[i].goals) : i \in 1..Len(list)}

\* agent_roles of allocate_subtasks
AgentRoles ==
    [a \in DOMAIN capabilities |-> extract_agent_roles(task, a, role_cfg, role_order)]

\* C1: build_subtasks_with_retry never returns a list longer than
\* max_subtasks: whenever it has returned, len(subtasks) <= max_subtasks; the
\* only other way out of the loop is the UNSAT error.
C1_CapRespected ==
    /\ Returned => Len(subtasks) <= cfg_cluster.max_subtasks
    /\ pc \in {"loop", "unsat", "role_error"} \/ Returned

\* a list of exactly max_subtasks subtasks is returned by a later attempt,
\* after an attempt that exceeded the cap
C1_ReturnedAtCap ==
    /\ pc = "returned"
    /\ retry >= 1
    /\ Len(subtasks) = cfg_cluster.max_subtasks

\* C2 as stated: whenever build_subtasks_with_retry returns, the union of the
\* subtasks' goals equals PlanningTask.goals.
C2_AllGoalsCovered == Returned => GoalsOf(subtasks) = task.goals

\* the goals that get roles: predicate listed in goal_predicates and every
\* role resolved
GoalsWithRoles ==
    {g \in task.goals :
        /\ g.predicate \in role_cfg.goal_predicates
        /\ extract_roles_for_goal(task, g, role_cfg, on_missing_role, role_order).status
               = "ok"}

\* C2 amended: whenever build_subtasks_with_retry returns, the union of the
\* subtasks' goals equals the set of the goals whose predicate is listed in
\* goal_predicates and whose roles all resolve; the other goals are in no
\* subtask.
C2_GoalsWithRolesCovered == Returned => GoalsOf(subtasks) = GoalsWithRoles

\* a returned list, built by a merge, that leaves a goal of the task out
C2_GoalLeftOut ==
    /\ pc = "returned"
    /\ Len(subtasks) < Len(partitioned)
    /\ GoalsOf(subtasks) # {}
    /\ GoalsOf(subtasks) # task.goals

\* every goal of the list is a goal of the task, and no goal occurs twice
NoForeignNoDup(list) ==
    /\ \A i \in 1..Len(list) : Range(list[i].goals) \subseteq task.goals
    /\ \A i, j \in 1..Len(list) :
          \A k \in 1..Len(list[i].goals), l \in 1..Len(list[j].goals) :
              list[i].goals[k] = list[j].goals[l] => (i = j /\ k = l)

\* C3: after the fine partition and after the merge, every atom of a
\* subtask's goal list is a goal of the task and no goal occurs twice, neither
\* within one subtask nor in two subtasks of the list.
C3_NoForeignNoDuplicate == NoForeignNoDup(partitioned) /\ NoForeignNoDup(subtasks)

\* the merge has joined subtasks of different role signatures
C3_MergedAcross ==
    /\ pc = "returned"
    /\ Len(subtasks) < Len(partitioned)
    /\ \E i \in 1..Len(subtasks) :
          /\ Len(subtasks[i].goals) >= 2
          /\ HasBar(subtasks[i].role_signature["loc"])

\* C4 as stated: no two subtasks of the list constraint_aware_merge_subtasks
\* returns carry the same id.
C4_UniqueIds ==
    (Returned /\ cfg_cluster.merge_compatible_subtasks) =>
        \A i, j \in 1..Len(subtasks) : subtasks[i].id = subtasks[j].id => i = j

\* C5 as stated: when the pipeline succeeds the assignment has one entry per
\* returned subtask, and each subtask is mapped to an agent that can execute
\* it.
C5_AssignmentTotal ==
    pc = "allocated" =>
        /\ Cardinality(DOMAIN assignment) = Len(subtasks)
        /\ \A i \in 1..Len(subtasks) :
              /\ subtasks[i].id \in DOMAIN assignment
              /\ can_execute_subtask(subtasks[i], assignment[subtasks[i].id], AgentRoles)

\* C6 as stated: under inverse_capability_size, when two agents can both
\* execute a subtask and one has strictly fewer capabilities, the subtask is
\* not assigned to the one with more.
C6_FewerCapabilitiesPreferred ==
    pc = "allocated" =>
        \A i \in 1..Len(subtasks) :
            \A a1, a2 \in DOMAIN capabilities :
                (/\ can_execute_subtask(subtasks[i], a1, AgentRoles)
                 /\ can_execute_subtask(subtasks[i], a2, AgentRoles)
                 /\ Cardinality(capabilities[a1]) < Cardinality(capabilities[a2]))
                => assignment[subtasks[i].id] # a2

\* C7 as stated: with merging enabled, every returned subtask has at most
\* max_goals_per_subtask goals.
C7_GoalsPerSubtaskCapped ==
    (Returned /\ cfg_cluster.merge_compatible_subtasks) =>
        \A i \in 1..Len(subtasks) :
            Len(subtasks[i].goals) <= cfg_cluster.max_goals_per_subtask

\* C8 as stated, its epsilon schedule: attempt k (counted from 0) runs with
\* epsilon = min(1.0, epsilon_start + k * epsilon_step).
C8_EpsilonClosedForm ==
    \A k \in 1..Len(eps_used) :
        eps_used[k] = Min2(EpsOne, cfg_cluster.epsilon_start
                                   + (k - 1) * cfg_cluster.epsilon_step)

\* the attempts made so far: their number, their epsilons, and why the loop
\* went on or stopped
RetrySchedule ==
    /\ Len(eps_used) = (IF pc \in {"loop", "unsat"} THEN retry ELSE retry + 1)
    /\ Len(eps_used) <= cfg_cluster.max_retries + 1
    /\ \A k \in 1..Len(eps_used) :
          eps_used[k] = IF k = 1 THEN cfg_cluster.epsilon_start
                        ELSE Min2(EpsOne, eps_used[k - 1] + cfg_cluster.epsilon_step)
    /\ cfg_cluster.epsilon_start <= EpsOne => C8_EpsilonClosedForm
    /\ Returned => Len(subtasks) <= cfg_cluster.max_subtasks
    /\ (pc = "loop" /\ retry > 0) => Len(subtasks) > cfg_cluster.max_subtasks
    /\ pc = "unsat" => /\ Len(eps_used) = cfg_cluster.max_retries + 1
                       /\ Len(subtasks) > cfg_cluster.max_subtasks
    /\ pc = "loop" => (retry > cfg_cluster.max_retries \/ AttemptOutcomes # {})

\* a step in the loop leaves it or moves on to the next attempt number, and
\* no attempt runs once the loop is left
RetryStep ==
    /\ pc # "loop" => eps_used' = eps_used
    /\ pc = "loop" =>
          /\ Len(eps_used') = Len(eps_used) + (IF pc' = "unsat" THEN 0 ELSE 1)
          /\ pc' = "loop" => (retry' = retry + 1 /\ retry' <= cfg_cluster.max_retries + 1)

\* C8 amended: attempts are numbered 0..max_retries in order; attempt 0 runs
\* with epsilon_start itself and attempt k + 1 with min(1.0, epsilon of
\* attempt k + epsilon_step), which is min(1.0, epsilon_start + k *
\* epsilon_step) whenever epsilon_start <= 1.0; the first attempt within the
\* cap returns and no later attempt runs; after max_retries + 1 attempts over
\* the cap the UNSAT error is raised.  The loop ends within max_retries + 2
\* steps: in the loop a step is always possible, and it leaves the loop or
\* advances the attempt number, which never exceeds max_retries + 1.
C8_RetryStateMachine == []RetrySchedule /\ [][RetryStep]_vars

\* the third attempt has run, and its epsilon was capped
C8_ThirdAttemptCapped ==
    /\ Len(eps_used) = 3
    /\ eps_used[3] = EpsOne
    /\ eps_used[2] < EpsOne
    /\ pc = "unsat"

\* C9 as stated: with max_retries = 0 and a first attempt over the cap, UNSAT
\* is raised after exactly one attempt and epsilon still equals
\* epsilon_start.
C9_EpsilonNotUpdated ==
    (cfg_cluster.max_retries = 0 /\ pc = "unsat") =>
        (Len(eps_used) = 1 /\ epsilon = cfg_cluster.epsilon_start)

\* C9 amended: with max_retries = 0 and a first attempt over the cap, UNSAT is
\* raised after exactly one attempt, which ran with epsilon_start; the local
\* epsilon has by then been advanced to min(1.0, epsilon_start +
\* epsilon_step).
C9_OneAttemptThenUnsat ==
    (cfg_cluster.max_retries = 0 /\ pc = "unsat") =>
        /\ eps_used = <<cfg_cluster.epsilon_start>>
        /\ retry = 1
        /\ epsilon = Min2(EpsOne, cfg_cluster.epsilon_start + cfg_cluster.epsilon_step)

\* UNSAT after the only attempt, with the local epsilon advanced
C9_UnsatAfterOneAttempt ==
    /\ cfg_cluster.max_retries = 0
    /\ pc = "unsat"
    /\ Len(eps_used) = 1
    /\ epsilon # cfg_cluster.epsilon_start

\* no agent can execute subtask i
NoFeasibleAgent(i) ==
    \A a \in DOMAIN capabilities : ~can_execute_subtask(subtasks[i], a, AgentRoles)

\* C10: if no agent is role-feasible for some subtask, allocate_subtasks
\* raises and returns no assignment; an assignment it returns maps every
\* subtask to an agent that can execute it.
C10_InfeasibleIsFatal ==
    /\ (pc \in {"allocated", "alloc_error"} /\ \E i \in 1..Len(subtasks) : NoFeasibleAgent(i))
          => (pc = "alloc_error" /\ assignment = EmptyMap)
    /\ pc = "allocated" =>
          \A i \in 1..Len(subtasks) :
              can_execute_subtask(subtasks[i], assignment[subtasks[i].id], AgentRoles)

\* the allocation failed although there are agents: none can execute some
\* subtask
C10_AllAgentsInfeasible ==
    /\ pc = "alloc_error"
    /\ DOMAIN capabilities # {}
    /\ \E i \in 1..Len(subtasks) : NoFeasibleAgent(i)

\* the agents that can execute subtask i
FeasibleAgents(i) ==
    {a \in DOMAIN capabilities : can_execute_subtask(subtasks[i], a, AgentRoles)}

\* C11: every subtask is assigned a feasible agent of minimal cost
\* 1 / (1 + |capabilities|), and among the feasible agents of that cost the
\* one with the lexicographically smallest name, whatever the order in which
\* the agents are enumerated.
C11_MinCostSmallestName ==
    pc = "allocated" =>
        \A i \in 1..Len(subtasks) :
            LET chosen == assignment[subtasks[i].id]
            IN  /\ chosen \in FeasibleAgents(i)
                /\ \A b \in FeasibleAgents(i) :
                      \/ Cardinality(capabilities[b]) < Cardinality(capabilities[chosen])
                      \/ /\ Cardinality(capabilities[b]) = Cardinality(capabilities[chosen])
                         /\ Rank(chosen) <= Rank(b)

\* two feasible agents of equal cost, enumerated with the larger name first
C11_TieEnumeratedBackwards ==
    /\ pc = "allocated"
    /\ agent_order = <<"r2", "r1">>
    /\ Cardinality(capabilities["r1"]) = Cardinality(capabilities["r2"])
    /\ \E i \in 1..Len(subtasks) :
          FeasibleAgents(i) = {"r1", "r2"} /\ assignment[subtasks[i].id] = "r1"

\* C12 as stated: the subtasks a run returns do not depend on the iteration
\* order of the goal set and of the components.  A run whose first attempt
\* returns with epsilon 0 never shuffles, so every other iteration order must
\* give the same list: same ids, same goal lists, same role signatures.
C12_SameResultInEveryOrder ==
    (Returned /\ eps_used = <<0>>) =>
        \A order \in Perms(task.goals) :
            AttemptResultIn(order, StructClustersIn(order), RunLandmarks, EmptyMap,
                            order).subtasks = subtasks

\* ------------------------------------------------------------------------
\* Functions called on their own.  The pipeline does not run (pc = "call");
\* `call` holds the arguments, and after the call the results.
\* ------------------------------------------------------------------------
InitCall(c) ==
    /\ task = PlanningTask({}, {}, {})
    /\ role_cfg = DomainRoleConfig({}, FALSE)
    /\ on_missing_role = "error"
    /\ cfg_cluster = ClusteringConfig(1, 0, 0, 0, 0, FALSE, 1, FALSE)
    /\ capabilities = EmptyMap
    /\ agent_order = <<>>
    /\ iter_order = <<>>
    /\ role_order = <<>>
    /\ pc = "call"
    /\ retry = 0
    /\ epsilon = 0
    /\ eps_used = <<>>
    /\ partitioned = <<>>
    /\ subtasks = <<>>
    /\ assignment = EmptyMap
    /\ call = c

Called(c) ==
    /\ pc = "call"
    /\ pc' = "called"
    /\ call' = c
    /\ UNCHANGED <<inputs, retry, epsilon, eps_used, partitioned, subtasks, assignment>>

\* ---- role signatures ----------------------------------------------------
\* object names a role value is made of
MaxSigNames == 3
SigNames == {NameOrder[i] : i \in 1..MaxSigNames}

\* a single name, a sorted disjunction, and two values no merge produced
SigValues ==
    {JoinBar(SortedStrs({Str(n) : n \in S})) : S \in (SUBSET SigNames) \ {{}}}
        \cup {<<"b", "|", "a">>, <<"a", "|", "a">>}

SigInputs ==
    [{"loc"} -> SigValues] \cup [{"loc", "typ"} -> {Str("a"), Str("b")}]
        \cup [{"typ"} -> {Str("a")}]

\* what the two merge functions answer on three signatures
MergeBy(by, x, y) ==
    IF by = "constraint_aware" THEN _merge_role_signatures_constraint_aware(x, y)
    ELSE _merge_role_signatures(x, y)

SignatureResults(by, a, b, c) ==
    [ab   |-> MergeBy(by, a, b),
     ba   |-> MergeBy(by, b, a),
     ab_c |-> MergeBy(by, MergeBy(by, a, b), c),
     a_bc |-> MergeBy(by, a, MergeBy(by, b, c)),
     aa   |-> MergeBy(by, a, a)]

InitSignatures ==
    \E a, b, c \in SigInputs :
        InitCall([op |-> "merge_role_signatures", a |-> a, b |-> b, c |-> c])

MergeSignatures ==
    /\ call.op = "merge_role_signatures"
    /\ Called([op |-> "merge_role_signatures", a |-> call.a, b |-> call.b, c |-> call.c,
               constraint_aware |->
                   SignatureResults("constraint_aware", call.a, call.b, call.c),
               multi_objective |->
                   SignatureResults("multi_objective", call.a, call.b, call.c)])

SpecSignatures == InitSignatures /\ [][MergeSignatures]_vars

\* the alternatives of a role value: the names between the bars
Alternatives(value) == {value[i] : i \in {j \in 1..Len(value) : value[j] # "|"}}

\* value is the names of S in increasing order, once each, with a bar between
IsSortedJoinOf(value, S) ==
    /\ Len(value) = 2 * Cardinality(S) - 1
    /\ \A i \in 1..Len(value) : (i % 2 = 0) <=> (value[i] = "|")
    /\ Alternatives(value) = S
    /\ \A i, j \in 1..Len(value) :
           (i < j /\ i % 2 = 1 /\ j % 2 = 1) => Rank(value[i]) < Rank(value[j])

MergedAsDocumented(r, a, b) ==
    /\ DOMAIN r.ab = (DOMAIN a) \cup (DOMAIN b)
    /\ \A key \in DOMAIN r.ab :
           IF key \notin DOMAIN b THEN r.ab[key] = a[key]
           ELSE IF key \notin DOMAIN a THEN r.ab[key] = b[key]
           ELSE IF a[key] = b[key] THEN r.ab[key] = a[key]
           ELSE IsSortedJoinOf(r.ab[key], Alternatives(a[key]) \cup Alternatives(b[key]))

\* C13: in both merge functions, for each role key equal values pass through
\* unchanged and differing values become the "|"-join of the sorted,
\* deduplicated union of the alternatives of both sides; the merge is
\* commutative, associative and idempotent.
C13_SignatureMergeAlgebra ==
    (pc = "called" /\ call.op = "merge_role_signatures") =>
        \A r \in {call.constraint_aware, call.multi_objective} :
            /\ MergedAsDocumented(r, call.a, call.b)
            /\ r.ab = r.ba
            /\ r.ab_c = r.a_bc
            /\ r.aa = call.a

\* "a|b" merged with "b|c" and then with "a" gave "a|b|c"
C13_OverlappingDisjunctionsMerged ==
    /\ pc = "called"
    /\ call.op = "merge_role_signatures"
    /\ call.a = [k \in {"loc"} |-> <<"a", "|", "b">>]
    /\ call.b = [k \in {"loc"} |-> <<"b", "|", "c">>]
    /\ call.c = [k \in {"loc"} |-> <<"a">>]
    /\ call.multi_objective.ab_c = [k \in {"loc"} |-> <<"a", "|", "b", "|", "c">>]
    /\ call.constraint_aware.ab = call.multi_objective.ab

\* ---- merging two subtasks -----------------------------------------------
\* The list finer_partition_by_roles builds from one-goal clusters, then
\* merged pair by pair, by either merge function, in any order.
MergeGoals == {Weld("a"), Weld("b"), Paint("b")}

InitMergeTwo ==
    \E order \in Perms(MergeGoals) :
    \E locs \in [MergeGoals -> {"r1", "r2"}] :
    \E lms \in {[g \in MergeGoals |-> {g.predicate}],
                [g \in MergeGoals |-> IF g = Paint("b") THEN {"weld", "paint"} ELSE {}]} :
        LET start == finer_partition_by_roles(
                         [i \in 1..Len(order) |-> <<order[i]>>],
                         [g \in MergeGoals |-> [loc |-> locs[g]]],
                         DomainRoleConfig({"weld", "paint"}, FALSE),
                         lms)
        IN  InitCall([op |-> "merge_two", initial |-> start, current |-> start,
                      merges |-> <<>>])

\* subtasks i < j of the list are replaced by their merge
MergeTwo ==
    /\ call.op = "merge_two"
    /\ pc \in {"call", "called"}
    /\ \E i, j \in 1..Len(call.current) :
       \E by \in {"constraint_aware", "strategic"} :
          /\ i < j
          /\ LET s1 == call.current[i]
                 s2 == call.current[j]
                 new_id == MaxId(call.current) + 1
                 merged == IF by = "constraint_aware"
                           THEN _merge_two_constraint_aware(s1, s2, new_id)
                           ELSE _merge_two_strategic(s1, s2, new_id)
             IN  call' = [call EXCEPT
                             !.current = RemoveAt(RemoveAt(call.current, j), i)
                                             \o <<merged>>,
                             !.merges = call.merges \o
                                 <<[by |-> by, s1 |-> s1, s2 |-> s2, merged |-> merged]>>]
    /\ pc' = "called"
    /\ UNCHANGED <<inputs, retry, epsilon, eps_used, partitioned, subtasks, assignment>>

SpecMergeTwo == InitMergeTwo /\ [][MergeTwo]_vars

\* how often goal g occurs in the goal lists of a subtask list
GoalCount(list, g) ==
    LET flat == Flatten([i \in 1..Len(list) |-> list[i].goals])
    IN  Cardinality({i \in 1..Len(flat) : flat[i] = g})

LandmarksOf(list) == UNION {list[i].landmark_predicates : i \in 1..Len(list)}

\* a mapping as its set of entries
Entries(d) == {<<k, d[k]>> : k \in DOMAIN d}

RolesPerGoalOf(list) == UNION {Entries(list[i].roles_per_goal) : i \in 1..Len(list)}

\* C14: a merge of s1 and s2 has the goals of s1 followed by those of s2,
\* the union of both landmark sets and the union of both roles_per_goal
\* mappings; over any sequence of merges the multiset of goals, the union of
\* landmark predicates and the union of roles_per_goal entries of the whole
\* list stay what they were.
C14_MergeLosesNothing ==
    call.op = "merge_two" =>
        /\ \A n \in 1..Len(call.merges) :
               LET m == call.merges[n]
               IN  /\ m.merged.goals = m.s1.goals \o m.s2.goals
                   /\ m.merged.landmark_predicates =
                          m.s1.landmark_predicates \cup m.s2.landmark_predicates
                   /\ Entries(m.merged.roles_per_goal) =
                          Entries(m.s1.roles_per_goal) \cup Entries(m.s2.roles_per_goal)
        /\ \A g \in MergeGoals :
               GoalCount(call.current, g) = GoalCount(call.initial, g)
        /\ LandmarksOf(call.current) = LandmarksOf(call.initial)
        /\ RolesPerGoalOf(call.current) = RolesPerGoalOf(call.initial)

\* three subtasks with different landmarks and roles became one, once by each
\* merge function
C14_AllMergedIntoOne ==
    /\ call.op = "merge_two"
    /\ Len(call.initial) = 3
    /\ Len(call.current) = 1
    /\ call.merges[1].by = "strategic"
    /\ call.merges[2].by = "constraint_aware"
    /\ call.merges[1].s2.landmark_predicates # call.merges[1].s1.landmark_predicates
    /\ Cardinality(LandmarksOf(call.initial)) = 2
    /\ Cardinality({e[2] : e \in RolesPerGoalOf(call.initial)}) = 2

\* ---- fine partitioning --------------------------------------------------
\* the resolved roles of a goal of the list `partitioned`
ResolvedRoles(g) ==
    LET i == CHOOSE k \in 1..Len(partitioned) : g \in Range(partitioned[k].goals)
    IN  partitioned[i].roles_per_goal[g]

\* same predicate and the same resolved value for every cluster key
SameKeys(g, h) ==
    /\ g.predicate = h.predicate
    /\ KeyTuple(ResolvedRoles(g), role_cfg) = KeyTuple(ResolvedRoles(h), role_cfg)

SameSubtask(g, h) ==
    \E i \in 1..Len(partitioned) : {g, h} \subseteq Range(partitioned[i].goals)

\* g and h lie in one structural cluster that split_large_cluster leaves whole
InUnsplitCluster(g, h) ==
    \E i \in 1..Len(StructClusters) :
        /\ {g, h} \subseteq StructClusters[i]
        /\ Cardinality(StructClusters[i]) <= cfg_cluster.max_cluster_size

\* C15 as stated: two goals with the same predicate and the same resolved
\* value for every cluster key are in the same subtask after
\* finer_partition_by_roles, for every max_cluster_size and epsilon.
C15_SameKeysSameSubtask ==
    \A g, h \in GoalsOf(partitioned) : SameKeys(g, h) => SameSubtask(g, h)

\* C15 amended: two such goals are in the same subtask when they lie in the
\* same structural cluster and that cluster has at most max_cluster_size
\* goals, for every epsilon.
C15_SameKeysSameSubtaskInOneCluster ==
    \A g, h \in GoalsOf(partitioned) :
        (SameKeys(g, h) /\ InUnsplitCluster(g, h)) => SameSubtask(g, h)

\* two different goals with equal keys in one unsplit cluster were grouped,
\* next to a goal with another key
C15_TwoGoalsGrouped ==
    /\ Len(partitioned) >= 2
    /\ \E g, h \in GoalsOf(partitioned) :
           g # h /\ SameKeys(g, h) /\ InUnsplitCluster(g, h) /\ SameSubtask(g, h)

\* ---- no goals -----------------------------------------------------------
\* C16: with an empty goal set and max_subtasks >= 0 the first attempt
\* returns the empty list, with merging enabled or disabled, and
\* allocate_subtasks returns the empty assignment for any set of agents; no
\* error is raised.
C16_NoGoalsNoError ==
    (task.goals = {} /\ cfg_cluster.max_subtasks >= 0) =>
        /\ pc \in {"loop", "returned", "allocated"}
        /\ pc = "loop" => eps_used = <<>>
        /\ pc \in {"returned", "allocated"} =>
               (Len(eps_used) = 1 /\ retry = 0 /\ subtasks = <<>>)
        /\ assignment = EmptyMap

\* the empty list was returned at max_subtasks = 0 after a merge pass and
\* allocated among no agents
C16_EmptyAllocatedWithoutAgents ==
    /\ task.goals = {}
    /\ cfg_cluster.max_subtasks = 0
    /\ cfg_cluster.merge_compatible_subtasks
    /\ DOMAIN capabilities = {}
    /\ pc = "allocated"
    /\ subtasks = <<>>
    /\ assignment = EmptyMap

\* ---- role extraction ----------------------------------------------------
\* Role loc has two extractors; role k01 is read off a fact next(loc, y) and
\* each further role of the chain off next(previous role, y).
MaxChain == 10

Near(t, x) == GroundAtom("near", <<t, x>>)
NextTo(x, y) == GroundAtom("next", <<x, y>>)

ChainNames ==
    <<"k01", "k02", "k03", "k04", "k05", "k06", "k07", "k08", "k09", "k10", "k11", "k12">>

ChainRoles(n) ==
    [r \in {"loc"} \cup {ChainNames[i] : i \in 1..n} |->
        IF r = "loc"
        THEN <<ExtractorConfig("reachable", {Binding(1, "goal", 0, "")}, 0),
               ExtractorConfig("near", {Binding(0, "goal", 0, "")}, 1)>>
        ELSE LET i == CHOOSE k \in 1..n : ChainNames[k] = r
             IN  <<ExtractorConfig("next",
                                   {Binding(0, "role", 0,
                                            IF i = 1 THEN "loc" ELSE ChainNames[i - 1])},
                                   1)>>]

ChainConfig(n) == [DomainRoleConfig({"weld"}, FALSE) EXCEPT !.roles = ChainRoles(n)]

Reversed(seq) == [i \in 1..Len(seq) |-> seq[Len(seq) + 1 - i]]

RoleGoals == {Weld("a"), Weld("b"), Paint("b")}

InitRoles ==
    \E init \in SUBSET {Reachable("r2", "a"), Near("a", "r1"), Reachable("r1", "b"),
                        NextTo("r1", "r1"), NextTo("r1", "r2"), NextTo("r2", "r2")} :
    \E n \in 0..MaxChain :
    \E omr \in {"error", "skip_goal"} :
    \E order \in {<<"loc">> \o SubSeq(ChainNames, 1, n),
                  Reversed(<<"loc">> \o SubSeq(ChainNames, 1, n))} :
        InitCall([op |-> "extract_roles", task |-> PlanningTask(init, RoleGoals, {}),
                  cfg |-> ChainConfig(n), on_missing_role |-> omr, role_order |-> order])

ExtractRoles ==
    /\ call.op = "extract_roles"
    /\ Called([op |-> "extract_roles", task |-> call.task, cfg |-> call.cfg,
               on_missing_role |-> call.on_missing_role, role_order |-> call.role_order,
               per_goal |-> [g \in call.task.goals |->
                                extract_roles_for_goal(call.task, g, call.cfg,
                                                       call.on_missing_role,
                                                       call.role_order)],
               all_goals |-> extract_roles_for_goals(call.task, call.cfg, call.task.goals,
                                                     call.on_missing_role,
                                                     call.role_order)])

SpecRoles == InitRoles /\ [][ExtractRoles]_vars

RolesCalled == pc = "called" /\ call.op = "extract_roles"

\* `roles` when round n begins
RolesBefore(rounds, n) == IF n = 1 THEN EmptyMap ELSE rounds[n - 1]

Position(order, r) == CHOOSE i \in 1..Len(order) : order[i] = r

\* `roles` when round n visits role r: what earlier rounds resolved and what
\* round n resolved for the roles it visited before r
RolesAtVisit(rounds, order, n, r) ==
    LET known == (DOMAIN RolesBefore(rounds, n)) \cup
                 {q \in DOMAIN rounds[n] : Position(order, q) < Position(order, r)}
    IN  [q \in known |-> rounds[n][q]]

\* C17: a role is resolved to the lexicographically smallest element of the
\* union, over all extractors of the role, of the values of the init atoms
\* matching the extractor's bindings (a single candidate as it is); with no
\* candidate the role stays unresolved for that round.
C17_SmallestCandidateOfUnion ==
    RolesCalled =>
        \A g \in call.task.goals :
            LET rounds == call.per_goal[g].rounds
            IN  \A n \in 1..Len(rounds) :
                \A r \in (DOMAIN call.cfg.roles) \ (DOMAIN RolesBefore(rounds, n)) :
                    LET sofar == RolesAtVisit(rounds, call.role_order, n, r)
                        candidates ==
                            UNION {evaluate_extractor_for_goal(call.task, g, sofar,
                                                               call.cfg.roles[r][i]) :
                                     i \in 1..Len(call.cfg.roles[r])}
                    IN  IF candidates = {}
                        THEN r \notin DOMAIN rounds[n]
                        ELSE /\ r \in DOMAIN rounds[n]
                             /\ rounds[n][r] \in candidates
                             /\ \A c \in candidates : Rank(rounds[n][r]) <= Rank(c)

\* loc of weld(a) is r1, found by the second extractor, although the first
\* extractor found r2; k01 had no candidate in the first round
C17_SecondExtractorWins ==
    /\ RolesCalled
    /\ call.task.init = {Reachable("r2", "a"), Near("a", "r1"),
                         NextTo("r1", "r1"), NextTo("r1", "r2")}
    /\ call.role_order = <<"k01", "loc">>
    /\ call.per_goal[Weld("a")].status = "ok"
    /\ call.per_goal[Weld("a")].roles = [loc |-> "r1", k01 |-> "r1"]
    /\ Len(call.per_goal[Weld("a")].rounds) = 2

\* C18: extract_roles_for_goal runs at most 10 rounds and stops when a round
\* resolves nothing; it returns a mapping only when every configured role is
\* resolved, and otherwise raises under "error" and returns None under
\* "skip_goal"; extract_roles_for_goals then leaves out that goal alone.
C18_RoleResolutionOutcome ==
    RolesCalled =>
        /\ \A g \in call.task.goals :
               LET res == call.per_goal[g]
                   last == IF res.rounds = <<>> THEN EmptyMap
                           ELSE res.rounds[Len(res.rounds)]
                   all_resolved == DOMAIN last = DOMAIN call.cfg.roles
               IN  /\ Len(res.rounds) <= 10
                   /\ \A n \in 1..Len(res.rounds) :
                          res.rounds[n] = RolesBefore(res.rounds, n) => n = Len(res.rounds)
                   /\ (Len(res.rounds) < 10 /\ ~all_resolved) =>
                          last = RolesBefore(res.rounds, Len(res.rounds))
                   /\ res.status = "ok" <=> all_resolved
                   /\ res.status = "ok" => res.roles = last
                   /\ res.status # "ok" =>
                          /\ res.roles = EmptyMap
                          /\ res.status = (IF call.on_missing_role = "error"
                                           THEN "raise" ELSE "none")
        /\ LET considered == {g \in call.task.goals :
                                g.predicate \in call.cfg.goal_predicates}
           IN  /\ call.all_goals.raised <=>
                      \E g \in considered : call.per_goal[g].status = "raise"
               /\ ~call.all_goals.raised =>
                      /\ DOMAIN call.all_goals.result =
                             {g \in considered : call.per_goal[g].status = "ok"}
                      /\ \A g \in DOMAIN call.all_goals.result :
                             call.all_goals.result[g] = call.per_goal[g].roles

\* weld(a) ran into the cap of 10 rounds with one role of eleven left and is
\* skipped, weld(b) stopped after a round without progress
C18_CapReachedGoalSkipped ==
    /\ RolesCalled
    /\ call.on_missing_role = "skip_goal"
    /\ Cardinality(DOMAIN call.cfg.roles) = 11
    /\ Len(call.per_goal[Weld("a")].rounds) = 10
    /\ call.per_goal[Weld("a")].status = "none"
    /\ Len(call.per_goal[Weld("b")].rounds) = 1
    /\ DOMAIN call.all_goals.result = {}

\* under skip_goal weld(b) alone is left out: weld(a) keeps its roles
C18_OnlyUnresolvedGoalSkipped ==
    /\ RolesCalled
    /\ call.on_missing_role = "skip_goal"
    /\ Cardinality(DOMAIN call.cfg.roles) >= 2
    /\ call.per_goal[Weld("b")].status = "none"
    /\ call.per_goal[Weld("b")].rounds[1] # EmptyMap
    /\ DOMAIN call.all_goals.result = {Weld("a")}

\* ---- merge compatibility ------------------------------------------------
Ready == GroundAtom("ready", <<>>)

\* a subtask with these goals; is_compatible_for_merging reads nothing else
GoalsOnly(i, goals) == SubTask(i, goals, {}, [loc |-> Str("r1")], EmptyMap)

InitCompat ==
    \E goals1 \in {<<Weld("a")>>, <<Weld("a"), Weld("b")>>, <<Weld("b")>>, <<Ready>>} :
    \E goals2 \in {<<Paint("b")>>, <<Paint("a")>>, <<Ready>>} :
    \E reach \in SUBSET {Reachable("r1", "a"), Reachable("r1", "b"), Reachable("r2", "b")} :
    \E types \in {{}, {WeldType("a", "t1")}, {WeldType("a", "t1"), WeldType("b", "t1")},
                   {WeldType("a", "t1"), WeldType("b", "t2")}} :
    \E max_goals \in 1..(MaxGoalsPerSubtask + 1) :
    \E binary \in {<<>>, <<"reachable">>}, unary \in {<<>>, <<"weld_type">>} :
    \E index \in {0, 1} :
        InitCall([op |-> "is_compatible_for_merging",
                  subtask1 |-> GoalsOnly(0, goals1), subtask2 |-> GoalsOnly(1, goals2),
                  task |-> PlanningTask(reach \cup types,
                                        Range(goals1) \cup Range(goals2), {}),
                  max_goals_per_subtask |-> max_goals,
                  constraint_config |-> [binary_constraints |-> binary,
                                         type_constraints |-> unary,
                                         goal_object_index |-> index]])

CheckCompatible ==
    /\ call.op = "is_compatible_for_merging"
    /\ Called([call EXCEPT !.op = "is_compatible_for_merging"] @@
              [result |-> is_compatible_for_merging(
                              call.subtask1, call.subtask2, call.task,
                              call.max_goals_per_subtask, call.constraint_config),
               swapped |-> is_compatible_for_merging(
                               call.subtask2, call.subtask1, call.task,
                               call.max_goals_per_subtask, call.constraint_config)])

SpecCompat == InitCompat /\ [][CheckCompatible]_vars

CompatCalled == pc = "called" /\ call.op = "is_compatible_for_merging"

\* the target objects of both subtasks' goals
CallTargets ==
    {g.args[call.constraint_config.goal_object_index + 1] :
        g \in {h \in Range(call.subtask1.goals) \cup Range(call.subtask2.goals) :
                 Len(h.args) > call.constraint_config.goal_object_index}}

\* the objects the task mentions
CallObjects ==
    UNION {Range(f.args) : f \in call.task.init \cup call.task.goals}

\* (a) the goals of both fit under the cap
WithinGoalCap ==
    Len(call.subtask1.goals) + Len(call.subtask2.goals) <= call.max_goals_per_subtask

\* (b) for every binary constraint predicate p some object o has a fact
\* p(o, t) for every target t
CommonObjectForAllTargets ==
    \A i \in 1..Len(call.constraint_config.binary_constraints) :
        \E o \in CallObjects :
            \A t \in CallTargets :
                GroundAtom(call.constraint_config.binary_constraints[i], <<o, t>>)
                    \in call.task.init

\* (c) for every type predicate p the targets have at most one type value
AtMostOneType ==
    \A i \in 1..Len(call.constraint_config.type_constraints) :
        \A f1, f2 \in {f \in call.task.init :
                         /\ f.predicate = call.constraint_config.type_constraints[i]
                         /\ f.args[1] \in CallTargets} :
            f1.args[2] = f2.args[2]

\* C19 as stated: is_compatible_for_merging is true exactly when (a), (b) and
\* (c) hold, and is symmetric in its two subtasks.
C19_CompatibleIffThreeConditions ==
    CompatCalled =>
        /\ call.result <=> (WithinGoalCap /\ CommonObjectForAllTargets /\ AtMostOneType)
        /\ call.result = call.swapped

\* C19 amended: as stated, and when a binary constraint predicate is
\* configured the two subtasks must have at least one target object.
C19_CompatibleIffConditionsAndTarget ==
    CompatCalled =>
        /\ call.result <=>
              /\ WithinGoalCap
              /\ CommonObjectForAllTargets
              /\ AtMostOneType
              /\ call.constraint_config.binary_constraints # <<>> => CallTargets # {}
        /\ call.result = call.swapped

\* compatible with both kinds of constraint configured: r1 reaches both
\* targets, r2 only one, and both targets have type t1
C19_CompatibleByCommonObject ==
    /\ CompatCalled
    /\ call.result
    /\ call.constraint_config.binary_constraints = <<"reachable">>
    /\ call.constraint_config.type_constraints = <<"weld_type">>
    /\ CallTargets = {"a", "b"}
    /\ Reachable("r2", "b") \in call.task.init
    /\ WeldType("b", "t1") \in call.task.init
    /\ Len(call.subtask1.goals) + Len(call.subtask2.goals) = call.max_goals_per_subtask

\* ---- S-expression reader (pddl/sexpr_parser.py) -------------------------
\* An SExpr is a str or a list of SExpr: kind "atom" with its token, or kind
\* "list" with its items.  error is the message of the ValueError raised, ""
\* when none is.  Positions count from 1.
Atom(token) == [kind |-> "atom", atom |-> token, items |-> <<>>]
ListExpr(items) == [kind |-> "list", atom |-> "", items |-> items]

Parsed(expr, next) == [error |-> "", none |-> FALSE, expr |-> expr, next |-> next]
ParsedNone(next) == [error |-> "", none |-> TRUE, expr |-> Atom(""), next |-> next]
Raised(message) == [error |-> message, none |-> TRUE, expr |-> Atom(""), next |-> 0]

RECURSIVE _parse_single_expr(_, _)
RECURSIVE ParseItems(_, _, _)

\* the while loop of _parse_single_expr from position i on
ParseItems(tokens, i, expr_list) ==
    IF i <= Len(tokens) /\ tokens[i] # ")"
    THEN LET sub == _parse_single_expr(tokens, i)
         IN  IF sub.error # "" THEN [error |-> sub.error, items |-> <<>>, next |-> 0]
             ELSE ParseItems(tokens, sub.next,
                             IF sub.none THEN expr_list ELSE Append(expr_list, sub.expr))
    ELSE [error |-> "", items |-> expr_list, next |-> i]

\* `elif token == ')'` is left out: the token is read as an atom
_parse_single_expr_ClosingAsAtom(tokens, start) ==
    IF start > Len(tokens) THEN ParsedNone(start)
    ELSE IF tokens[start] = "("
         THEN LET body == ParseItems(tokens, start + 1, <<>>)
              IN  IF body.error # "" THEN Raised(body.error)
                  ELSE IF body.next > Len(tokens)
                       THEN Raised("Unmatched opening parenthesis")
                       ELSE Parsed(ListExpr(body.items), body.next + 1)
         ELSE Parsed(Atom(tokens[start]), start + 1)

_parse_single_expr(tokens, start) ==
    IF start > Len(tokens) THEN ParsedNone(start)
    ELSE IF tokens[start] = "("
         THEN LET body == ParseItems(tokens, start + 1, <<>>)
              IN  IF body.error # "" THEN Raised(body.error)
                  ELSE IF body.next > Len(tokens)
                       THEN Raised("Unmatched opening parenthesis")
                       ELSE Parsed(ListExpr(body.items), body.next + 1)
         ELSE IF tokens[start] = ")"
              THEN Raised("Unexpected closing parenthesis")
              ELSE Parsed(Atom(tokens[start]), start + 1)

\* the while loop of parse_sexpr
RECURSIVE ParseTop(_, _, _)
ParseTop(tokens, i, result) ==
    IF i <= Len(tokens)
    THEN LET one == _parse_single_expr(tokens, i)
         IN  IF one.error # "" THEN [error |-> one.error, result |-> <<>>]
             ELSE ParseTop(tokens, one.next,
                           IF one.none THEN result ELSE Append(result, one.expr))
    ELSE [error |-> "", result |-> result]

parse_sexpr(tokens) == ParseTop(tokens, 1, <<>>)

MaxTokens == 6
Tokens == {"(", ")", "a", "b"}

InitSexpr ==
    \E n \in 0..MaxTokens :
    \E tokens \in [1..n -> Tokens] :
        InitCall([op |-> "parse_sexpr", tokens |-> tokens])

ParseSexpr ==
    /\ call.op = "parse_sexpr"
    /\ Called([op |-> "parse_sexpr", tokens |-> call.tokens,
               parsed |-> parse_sexpr(call.tokens)])

SpecSexpr == InitSexpr /\ [][ParseSexpr]_vars

SexprCalled == pc = "called" /\ call.op = "parse_sexpr"

\* opening minus closing parentheses among the first n tokens
Depth(tokens, n) ==
    Cardinality({i \in 1..n : tokens[i] = "("}) - Cardinality({i \in 1..n : tokens[i] = ")"})

UnmatchedClosing(tokens) == \E n \in 1..Len(tokens) : Depth(tokens, n) < 0
UnterminatedOpening(tokens) == Depth(tokens, Len(tokens)) > 0

\* the tokens of a list of expressions, left to right, parentheses restored
RECURSIVE Unparse(_)
Unparse(exprs) ==
    IF exprs = <<>> THEN <<>>
    ELSE (IF Head(exprs).kind = "atom" THEN <<Head(exprs).atom>>
          ELSE <<"(">> \o Unparse(Head(exprs).items) \o <<")">>)
         \o Unparse(Tail(exprs))

\* C20: parse_sexpr raises on every token sequence with an unmatched closing
\* or an unterminated opening parenthesis, and on every balanced sequence it
\* returns a tree whose left-to-right flattening, parentheses restored, is
\* the token sequence.
C20_ErrorIffUnbalancedElseRoundTrip ==
    SexprCalled =>
        IF UnmatchedClosing(call.tokens) \/ UnterminatedOpening(call.tokens)
        THEN call.parsed.error # ""
        ELSE /\ call.parsed.error = ""
             /\ Unparse(call.parsed.result) = call.tokens

\* "( a ( ) ) b" was read as a list holding an atom and an empty list,
\* followed by an atom
C20_NestedListRead ==
    /\ SexprCalled
    /\ call.tokens = <<"(", "a", "(", ")", ")", "b">>
    /\ call.parsed.error = ""
    /\ call.parsed.result = <<ListExpr(<<Atom("a"), ListExpr(<<>>)>>), Atom("b")>>

\* ---- phase 3 of the constraint-aware merge ------------------------------
\* _aggressive_constraint_aware_merge run pass by pass of its while loop on
\* the list finer_partition_by_roles builds from one-goal clusters.
InitAggressive ==
    \E order \in Perms(MergeGoals) :
    \E locs \in {[g \in MergeGoals |-> "r1"],
                 [g \in MergeGoals |-> IF g = Weld("a") THEN "r1" ELSE "r2"]} :
    \E lms \in {[g \in MergeGoals |-> {g.predicate}],
                [g \in MergeGoals |-> IF g = Paint("b") THEN {"weld", "paint"} ELSE {}]} :
    \E reach \in SUBSET {Reachable("r1", "a"), Reachable("r1", "b"), Reachable("r2", "b")} :
    \E max_goals \in 2..MaxGoalsPerSubtask :
    \E target_count \in 0..2 :
    \E binary \in {<<>>, <<"reachable">>} :
        LET start == finer_partition_by_roles(
                         [i \in 1..Len(order) |-> <<order[i]>>],
                         [g \in MergeGoals |-> [loc |-> locs[g]]],
                         DomainRoleConfig({"weld", "paint"}, FALSE),
                         lms)
        IN  InitCall([op |-> "aggressive_merge",
                      task |-> PlanningTask(reach, MergeGoals, {}),
                      max_goals_per_subtask |-> max_goals,
                      target_count |-> target_count,
                      constraint_config |-> [binary_constraints |-> binary,
                                             type_constraints |-> <<>>,
                                             goal_object_index |-> 0],
                      subtasks |-> start, merged |-> start,
                      next_id |-> MaxId(start) + 1, steps |-> <<>>])

\* one pass of the while loop that merges best_pair
AggressiveStep ==
    /\ call.op = "aggressive_merge"
    /\ pc = "call"
    /\ Len(call.merged) > call.target_count
    /\ LET best_pair == BestPair(call.merged, call.task, call.max_goals_per_subtask,
                                 call.constraint_config)
       IN  /\ best_pair # <<>>
           /\ call' = [call EXCEPT
                  !.merged =
                      Append(RemoveAt(RemoveAt(call.merged, best_pair[2]), best_pair[1]),
                             _merge_two_constraint_aware(call.merged[best_pair[1]],
                                                         call.merged[best_pair[2]],
                                                         call.next_id)),
                  !.next_id = call.next_id + 1,
                  !.steps = Append(call.steps, [list |-> call.merged, i |-> best_pair[1],
                                                j |-> best_pair[2]])]
    /\ UNCHANGED <<inputs, pc, retry, epsilon, eps_used, partitioned, subtasks, assignment>>

\* the loop is left and `merged` returned; next to it what the whole call
\* and what constraint_aware_merge_subtasks return on the same list
AggressiveReturn ==
    /\ call.op = "aggressive_merge"
    /\ \/ Len(call.merged) <= call.target_count
       \/ BestPair(call.merged, call.task, call.max_goals_per_subtask,
                   call.constraint_config) = <<>>
    /\ Called(call @@
              [whole |-> _aggressive_constraint_aware_merge(
                             call.subtasks, call.task, call.max_goals_per_subtask,
                             call.target_count, call.constraint_config),
               all_phases |-> constraint_aware_merge_subtasks(
                                  call.subtasks, call.task, call.max_goals_per_subtask,
                                  call.target_count, call.constraint_config)])

SpecAggressive == InitAggressive /\ [][AggressiveStep \/ AggressiveReturn]_vars

\* the pairs of positions of a list that is_compatible_for_merging accepts
CompatiblePairs(list) ==
    {p \in (1..Len(list)) \X (1..Len(list)) :
        /\ p[1] # p[2]
        /\ is_compatible_for_merging(list[p[1]], list[p[2]], call.task,
                                     call.max_goals_per_subtask, call.constraint_config)}

PairScore(list, p) ==
    _compatibility_score_with_constraints(list[p[1]], list[p[2]], call.task,
                                          call.constraint_config)

AtTargetOrNoPair(list) == Len(list) <= call.target_count \/ CompatiblePairs(list) = {}

\* C21: constraint_aware_merge_subtasks with a target count terminates and
\* returns a list that has at most target_subtask_count subtasks or no two
\* compatible subtasks; each step of phase 3 merges a compatible pair of
\* maximal score.
C21_TargetReachedOrNoPairLeft ==
    call.op = "aggressive_merge" =>
        /\ Len(call.merged) = Len(call.subtasks) - Len(call.steps)
        /\ Len(call.merged) >= 1
        /\ \A n \in 1..Len(call.steps) :
               LET s == call.steps[n]
               IN  /\ Len(s.list) > call.target_count
                   /\ <<s.i, s.j>> \in CompatiblePairs(s.list)
                   /\ \A q \in CompatiblePairs(s.list) :
                          PairScore(s.list, q) <= PairScore(s.list, <<s.i, s.j>>)
        /\ pc = "called" =>
               /\ call.whole = call.merged
               /\ AtTargetOrNoPair(call.whole)
               /\ AtTargetOrNoPair(call.all_phases)

\* phase 3 passed over the first compatible pair for a later pair of higher
\* score and stopped at the target count
C21_BestPairNotFirst ==
    /\ call.op = "aggressive_merge"
    /\ pc = "called"
    /\ Len(call.steps) = 1
    /\ <<1, 2>> \in CompatiblePairs(call.steps[1].list)
    /\ <<call.steps[1].i, call.steps[1].j>> = <<2, 3>>
    /\ Len(call.whole) = call.target_count
    /\ CompatiblePairs(call.whole) # {}

\* ---- split_large_cluster called on its own ------------------------------
\* The whole call: the chunks returned or the error raised, the calls made
\* on rng, and the caller's list afterwards.  range(0, n, max_size) raises
\* ValueError for max_size = 0 and is empty for max_size < 0.
SplitCall(cluster, max_size, draw, eps, shuffled) ==
    IF Len(cluster) <= max_size
    THEN [error |-> "", result |-> split_large_cluster(cluster, max_size, draw, eps,
                                                   shuffled),
          rng |-> <<>>, cluster |-> cluster]
    ELSE LET cluster_copy == cluster
             rng == IF draw < eps THEN <<"random", "shuffle">> ELSE <<"random">>
         IN  IF max_size = 0
             THEN [error |-> "ValueError", result |-> <<>>, rng |-> rng,
                   cluster |-> cluster]
             ELSE IF max_size < 0
                  THEN [error |-> "", result |-> <<>>, rng |-> rng, cluster |-> cluster]
                  ELSE [error |-> "",
                        result |-> split_large_cluster(cluster_copy, max_size, draw,
                                                       eps, shuffled),
                        rng |-> rng, cluster |-> cluster]

\* lists of different goals
GoalLists == UNION {Perms(S) : S \in SUBSET {Weld("a"), Weld("b"), Paint("b")}}

InitSplit ==
    \E cluster \in GoalLists :
    \E max_size \in (-1)..(MaxClusterSize + 1) :
    \E draw \in 0..(EpsOne - 1), eps \in 0..EpsOne :
    \E shuffled \in Perms(Range(cluster)) :
        InitCall([op |-> "split_large_cluster", cluster |-> cluster,
                  max_size |-> max_size, draw |-> draw, epsilon |-> eps,
                  shuffled |-> shuffled])

SplitCluster ==
    /\ call.op = "split_large_cluster"
    /\ Called(call @@ [out |-> SplitCall(call.cluster, call.max_size, call.draw,
                                         call.epsilon, call.shuffled)])

SpecSplit == InitSplit /\ [][SplitCluster]_vars

SplitCalled == pc = "called" /\ call.op = "split_large_cluster"

\* what C22 says of one call
SplitAsDocumented ==
    LET out == call.out
        flat == Flatten(out.result)
    IN  /\ out.error = ""
        /\ out.cluster = call.cluster
        /\ IF Len(call.cluster) <= call.max_size
           THEN out.result = <<call.cluster>> /\ out.rng = <<>>
           ELSE /\ Cardinality({i \in 1..Len(out.rng) : out.rng[i] = "random"}) = 1
                /\ \A n \in 1..Len(out.result) :
                       Len(out.result[n]) >= 1 /\ Len(out.result[n]) <= call.max_size
                /\ Len(flat) = Len(call.cluster)
                /\ Range(flat) = Range(call.cluster)
                /\ call.draw >= call.epsilon => flat = call.cluster

\* C22 as stated: without a draw the cluster is returned as one chunk when
\* len(cluster) <= max_size; otherwise one random number is drawn and the
\* chunks are non-empty, of at most max_size goals, and concatenate to a
\* permutation of the cluster, in the input order when the draw is >= epsilon;
\* the input list is not modified.
C22_SplitChunks == SplitCalled => SplitAsDocumented

\* C22 amended: the same for max_size >= 1.
C22_SplitChunksPositiveSize == (SplitCalled /\ call.max_size >= 1) => SplitAsDocumented

\* three goals were shuffled into another order and cut into a chunk of two
\* and a chunk of one
C22_ShuffledAndSliced ==
    /\ SplitCalled
    /\ Len(call.cluster) = 3
    /\ call.max_size = 2
    /\ call.draw < call.epsilon
    /\ call.shuffled # call.cluster
    /\ call.out.result = <<SubSeq(call.shuffled, 1, 2), SubSeq(call.shuffled, 3, 3)>>

\* ---- parameter lists (pddl/domain_parser.py) ----------------------------
\* _parse_parameters run pass by pass of its while loop.  i counts from 0 as
\* in the code; iterations counts the passes made.
NoType == [kind |-> "none", atom |-> "", items |-> <<>>]
TypedVar(name, type) == [name |-> name, type |-> type]

MaxParams == 4
MaxIterations == 6

\* names, the dash, a type name, and a nested list in place of a name
ParamItems == {Atom("?a"), Atom("?b"), Atom("-"), Atom("t"), ListExpr(<<Atom("x")>>)}

InitParams ==
    \E n \in 0..MaxParams :
    \E param_list \in [1..n -> ParamItems] :
        InitCall([op |-> "parse_parameters", param_list |-> param_list,
                  i |-> 0, params |-> <<>>, iterations |-> 0])

\* one pass of `while i < len(param_list)`
ParamStep ==
    /\ call.op = "parse_parameters"
    /\ pc = "call"
    /\ call.i < Len(call.param_list)
    /\ call.iterations < MaxIterations
    /\ LET param_list == call.param_list
           i == call.i
       IN  IF param_list[i + 1].kind = "atom"
           THEN LET var_name == param_list[i + 1]
                    typed == i + 2 < Len(param_list) /\ param_list[i + 2] = Atom("-")
                    var_type == IF typed THEN param_list[i + 3] ELSE NoType
                IN  call' = [call EXCEPT
                                !.i = IF typed THEN i + 3 ELSE i + 1,
                                !.params = Append(call.params, TypedVar(var_name, var_type)),
                                !.iterations = call.iterations + 1]
           ELSE call' = [call EXCEPT !.iterations = call.iterations + 1]
    /\ UNCHANGED <<inputs, pc, retry, epsilon, eps_used, partitioned, subtasks, assignment>>

\* `return params`
ParamReturn ==
    /\ call.op = "parse_parameters"
    /\ call.i >= Len(call.param_list)
    /\ Called(call)

SpecParams == InitParams /\ [][ParamStep \/ ParamReturn]_vars

\* a parameter list of the form  name ... name - t  ...  name ... name
TypedRuns(list) ==
    \A k \in 1..Len(list) :
        /\ list[k] \in {Atom("?a"), Atom("?b"), Atom("-"), Atom("t")}
        /\ list[k] = Atom("-") =>
               k > 1 /\ list[k - 1] \in {Atom("?a"), Atom("?b")} /\ k < Len(list)
        /\ list[k] = Atom("t") <=> (k > 1 /\ list[k - 1] = Atom("-"))

\* the positions of the names of such a list
NamePositions(list) == {k \in 1..Len(list) : list[k] \in {Atom("?a"), Atom("?b")}}

\* the type of the run the name at position k is in: the item behind the
\* next dash, the null type when no dash follows
RunType(list, k) ==
    LET dashes == {m \in (k + 1)..Len(list) : list[m] = Atom("-")}
    IN  IF dashes = {} THEN NoType
        ELSE list[(CHOOSE m \in dashes : \A d \in dashes : m <= d) + 1]

\* C23: every name of a run of names followed by "- type" has that type in
\* the parameters returned, and only names followed by no "- type" have the
\* null type.
C23_RunSharesType ==
    (pc = "called" /\ call.op = "parse_parameters" /\ TypedRuns(call.param_list)) =>
        LET names == SelectSeq(call.param_list,
                               LAMBDA x : x \in {Atom("?a"), Atom("?b")})
            types == SelectSeq([k \in 1..Len(call.param_list) |->
                                   IF k \in NamePositions(call.param_list)
                                   THEN RunType(call.param_list, k) ELSE Atom("-")],
                               LAMBDA x : x # Atom("-"))
        IN  call.params = [n \in 1..Len(names) |-> TypedVar(names[n], types[n])]

\* C30: _parse_parameters terminates on every parameter list, a nested list
\* among the items included: every pass of the loop advances the index, so
\* the loop makes at most len(param_list) passes.
C30_ScanAdvances ==
    call.op = "parse_parameters" =>
        /\ call.iterations <= call.i
        /\ call.iterations <= Len(call.param_list)

\* ---- distribute_goals strategy (planning/multi_objective_merge.py) ------
\* variance > 4.0 for variance = sum((size - mean)**2) / n with mean =
\* sum(sizes) / n, over the integers: n * sum(size**2) - sum(sizes)**2 > 4 * n**2
RECURSIVE SumOf(_)
SumOf(seq) == IF seq = <<>> THEN 0 ELSE Head(seq) + SumOf(Tail(seq))

VarianceAbove4(sizes) ==
    LET n == Len(sizes)
    IN  n * SumOf([k \in 1..n |-> sizes[k] * sizes[k]]) - SumOf(sizes) * SumOf(sizes)
            > 4 * n * n

\* `return False` in place of the variance test
should_continue_merging_SmallOnly(tasks, target_count, iteration) ==
    IF Len(tasks) <= target_count THEN FALSE
    ELSE \E n \in 1..Len(tasks) : Len(tasks[n].goals) <= 2

\* DistributeGoalsStrategy.should_continue_merging
should_continue_merging(tasks, target_count, iteration) ==
    IF Len(tasks) <= target_count THEN FALSE
    ELSE LET small_tasks == SelectSeq(tasks, LAMBDA s : Len(s.goals) <= 2)
             sizes == [n \in 1..Len(tasks) |-> Len(tasks[n].goals)]
         IN  IF small_tasks # <<>> THEN TRUE
             ELSE IF sizes # <<>> THEN VarianceAbove4(sizes)
             ELSE FALSE

\* the while condition of _strategic_cross_role_merge; target_count 0 stands
\* for None as well: `target_count or len(merged)`
StrategicLoopCondition(merged, target_count, iteration) ==
    should_continue_merging(merged, IF target_count = 0 THEN Len(merged) ELSE target_count,
                            iteration)

MaxGoalCount == 8
MaxStrategyTarget == 3

\* goal number k of thirty different goals
NumberedGoal(k) ==
    GroundAtom(<<"weld", "paint", "move", "cut", "drill", "glue">>[((k - 1) \div 5) + 1],
               <<<<"a", "b", "c", "d", "e">>[((k - 1) % 5) + 1]>>)

\* subtasks with sizes[n] goals each
SubtasksOfSizes(sizes) ==
    [n \in 1..Len(sizes) |->
        SubTask(n - 1,
                [k \in 1..sizes[n] |-> NumberedGoal(SumOf(SubSeq(sizes, 1, n - 1)) + k)],
                {}, [loc |-> Str("r1")], EmptyMap)]

InitStrategy ==
    \E n \in 1..3 :
    \E sizes \in [1..n -> 1..MaxGoalCount] :
    \E target_count \in 0..MaxStrategyTarget :
        InitCall([op |-> "should_continue_merging", subtasks |-> SubtasksOfSizes(sizes),
                  target_count |-> target_count])

ShouldContinue ==
    /\ call.op = "should_continue_merging"
    /\ Called(call @@
              [result |-> should_continue_merging(call.subtasks, call.target_count, 0),
               loop |-> StrategicLoopCondition(call.subtasks, call.target_count, 0)])

SpecStrategy == InitStrategy /\ [][ShouldContinue]_vars

StrategyCalled == pc = "called" /\ call.op = "should_continue_merging"

SomeSmallSubtask == \E n \in 1..Len(call.subtasks) : Len(call.subtasks[n].goals) <= 2

\* the variance of the goal counts exceeds 4: the mean of the squared
\* distances between any two counts exceeds 8
GoalCountVarianceAbove4 ==
    LET n == Len(call.subtasks)
        Distance2[a \in 0..n, b \in 0..n] ==
            IF a = 0 \/ b = 0 THEN 0
            ELSE (Len(call.subtasks[a].goals) - Len(call.subtasks[b].goals))
                 * (Len(call.subtasks[a].goals) - Len(call.subtasks[b].goals))
        Total[a \in 0..n, b \in 0..n] ==
            IF a = 0 THEN 0
            ELSE IF b = 0 THEN Total[a - 1, n]
            ELSE Total[a, b - 1] + Distance2[a, b]
    IN  Total[n, n] > 8 * n * n

\* C24 as stated: the predicate returns true whenever some subtask has 2 or
\* fewer goals or the variance of the goal counts exceeds 4.0, and the merge
\* loop goes on in every such state.
C24_ContinuesWhileSmallOrUneven ==
    (StrategyCalled /\ (SomeSmallSubtask \/ GoalCountVarianceAbove4)) =>
        (call.result /\ call.loop)

\* C24 amended: the predicate returns true exactly when there are more than
\* target_count subtasks and some subtask has 2 or fewer goals or the
\* variance exceeds 4.0; the loop tests it with the length of the list as
\* target when no target count is set, and then never goes on.
C24_ContinuesWhileAboveTarget ==
    StrategyCalled =>
        /\ call.result <=>
              /\ Len(call.subtasks) > call.target_count
              /\ SomeSmallSubtask \/ GoalCountVarianceAbove4
        /\ call.loop <=> (call.target_count # 0 /\ call.result)

\* no subtask is small, the counts 3 and 8 have variance 6.25, and the
\* predicate asks for another merge
C24_UnevenWithoutSmall ==
    /\ StrategyCalled
    /\ Len(call.subtasks) = 2
    /\ Len(call.subtasks[1].goals) = 3
    /\ Len(call.subtasks[2].goals) = 8
    /\ call.target_count = 1
    /\ call.result
    /\ call.loop

\* ---- the three phases of constraint_aware_merge_subtasks ----------------
PhaseGoals == <<Weld("a"), Weld("b"), Paint("b")>>

\* one-goal subtasks out of finer_partition_by_roles, of one, two or three
\* role signatures
InitPhases ==
    \E locs \in {<<"r1", "r1", "r1">>, <<"r1", "r2", "r2">>,
                 <<"r1", "r2", "r1">>, <<"r1", "r2", "t1">>} :
    \E reach \in SUBSET {Reachable("r1", "a"), Reachable("r1", "b"), Reachable("r2", "b")} :
    \E weld_types \in {{}, {WeldType("a", "t1"), WeldType("b", "t1")},
                       {WeldType("a", "t1"), WeldType("b", "t2")}} :
    \E max_goals \in 2..MaxGoalsPerSubtask :
    \E target_count \in 0..2 :
    \E binary \in {<<>>, <<"reachable">>} :
    \E types \in {<<>>, <<"weld_type">>} :
    \E goal_object_index \in 0..1 :
        InitCall([op |-> "constraint_aware_merge_subtasks",
                  subtasks |-> finer_partition_by_roles(
                                   [i \in 1..Len(PhaseGoals) |-> <<PhaseGoals[i]>>],
                                   [g \in Range(PhaseGoals) |->
                                       [loc |-> locs[CHOOSE i \in 1..Len(PhaseGoals) :
                                                        PhaseGoals[i] = g]]],
                                   DomainRoleConfig({"weld", "paint"}, FALSE),
                                   [g \in Range(PhaseGoals) |-> {g.predicate}]),
                  task |-> PlanningTask(reach \cup weld_types, Range(PhaseGoals), {}),
                  max_goals_per_subtask |-> max_goals,
                  target_count |-> target_count,
                  constraint_config |-> [binary_constraints |-> binary,
                                         type_constraints |-> types,
                                         goal_object_index |-> goal_object_index]])

\* constraint_aware_merge_subtasks with the lists its phases 1 and 2 leave
MergePhases ==
    /\ call.op = "constraint_aware_merge_subtasks"
    /\ LET phase1 == _merge_within_same_role_signature(
                         call.subtasks, call.task, call.max_goals_per_subtask,
                         call.constraint_config)
           phase2 == _merge_compatible_across_roles(
                         phase1, call.task, call.max_goals_per_subtask,
                         call.constraint_config)
       IN  Called(call @@
                  [phase1 |-> phase1, phase2 |-> phase2,
                   result |-> constraint_aware_merge_subtasks(
                                  call.subtasks, call.task, call.max_goals_per_subtask,
                                  call.target_count, call.constraint_config)])

SpecPhases == InitPhases /\ [][MergePhases]_vars

PhasesCalled == pc = "called" /\ call.op = "constraint_aware_merge_subtasks"

\* C25: when phase 2 returns no two subtasks of its list are compatible, so
\* phase 3 returns its input unchanged for every target count and the list
\* constraint_aware_merge_subtasks returns is the same for every
\* target_subtask_count.
C25_PhaseThreeMergesNothing ==
    PhasesCalled =>
        /\ CompatiblePairs(call.phase2) = {}
        /\ call.result = call.phase2
        /\ \A t \in 0..MaxSubtasks :
              /\ _aggressive_constraint_aware_merge(
                     call.phase2, call.task, call.max_goals_per_subtask, t,
                     call.constraint_config) = call.phase2
              /\ constraint_aware_merge_subtasks(
                     call.subtasks, call.task, call.max_goals_per_subtask, t,
                     call.constraint_config) = call.result

\* phase 2 merged a pair, its list is longer than the target count, and
\* phase 3, entered, returned it as it was
C25_AboveTargetReturnedUnchanged ==
    /\ PhasesCalled
    /\ call.target_count # 0
    /\ Len(call.phase2) < Len(call.phase1)
    /\ Len(call.phase2) > call.target_count
    /\ call.result = call.phase2

\* the subtasks of the lists after phase 1, phase 2 and at the return that a
\* merge created: the subtasks given have one goal each
CreatedByMerge ==
    {s \in Range(call.phase1) \cup Range(call.phase2) \cup Range(call.result) :
        s \notin Range(call.subtasks)}

TargetsOf(s) ==
    {g.args[call.constraint_config.goal_object_index + 1] :
        g \in {h \in Range(s.goals) : Len(h.args) > call.constraint_config.goal_object_index}}

FactArgs == UNION {Range(f.args) : f \in call.task.init}

\* C26: every subtask created by a merge has at most max_goals_per_subtask
\* goals, for each binary constraint predicate an object with a fact for
\* every one of its target objects, and target objects of at most one type
\* value per type predicate.
C26_MergedSubtasksSatisfyConstraints ==
    PhasesCalled =>
        \A s \in CreatedByMerge :
            /\ Len(s.goals) <= call.max_goals_per_subtask
            /\ \A i \in 1..Len(call.constraint_config.binary_constraints) :
                  \E o \in FactArgs :
                      \A t \in TargetsOf(s) :
                          GroundAtom(call.constraint_config.binary_constraints[i], <<o, t>>)
                              \in call.task.init
            /\ \A i \in 1..Len(call.constraint_config.type_constraints) :
                  \A f1, f2 \in call.task.init :
                      (/\ f1.predicate = call.constraint_config.type_constraints[i]
                       /\ f2.predicate = call.constraint_config.type_constraints[i]
                       /\ f1.args[1] \in TargetsOf(s)
                       /\ f2.args[1] \in TargetsOf(s))
                      => f1.args[2] = f2.args[2]

\* all three goals merged in two steps under both kinds of constraint
C26_ThreeGoalsMergedUnderConstraints ==
    /\ PhasesCalled
    /\ call.constraint_config.binary_constraints = <<"reachable">>
    /\ call.constraint_config.type_constraints = <<"weld_type">>
    /\ \E f \in call.task.init : f.predicate = "weld_type"
    /\ Len(call.result) = 1
    /\ Len(call.result[1].goals) = 3
    /\ Len(call.phase1) = 2

BinaryWithoutFact ==
    \E i \in 1..Len(call.constraint_config.binary_constraints) :
        \A f \in call.task.init :
            f.predicate # call.constraint_config.binary_constraints[i]

NoTargetAtIndex(s) ==
    \A n \in 1..Len(s.goals) : Len(s.goals[n].args) <= call.constraint_config.goal_object_index

\* C28: with a binary constraint predicate configured (the pipeline always
\* configures one), no two subtasks are compatible when the predicate has no
\* fact in the init set or when neither subtask has a goal argument at
\* goal_object_index; when that is so for every pair the merge returns the
\* subtasks it was given, with their ids and goals, and creates none.
C28_NothingMergedWithoutFactsOrTargets ==
    (PhasesCalled /\ call.constraint_config.binary_constraints # <<>>) =>
        LET Excluded(i, j) ==
                \/ BinaryWithoutFact
                \/ NoTargetAtIndex(call.subtasks[i]) /\ NoTargetAtIndex(call.subtasks[j])
            positions == 1..Len(call.subtasks)
        IN  /\ \A i, j \in positions :
                  (i # j /\ Excluded(i, j)) => <<i, j>> \notin CompatiblePairs(call.subtasks)
            /\ (\A i, j \in positions : i # j => Excluded(i, j)) =>
                  /\ Len(call.result) = Len(call.subtasks)
                  /\ Range(call.result) = Range(call.subtasks)
                  /\ call.phase1 = call.result

\* no reachable fact at all: three subtasks that the goal cap and the type
\* constraint would let merge come back, regrouped by role signature
C28_ReturnedWithoutReachableFacts ==
    /\ PhasesCalled
    /\ call.constraint_config.binary_constraints = <<"reachable">>
    /\ call.constraint_config.goal_object_index = 0
    /\ BinaryWithoutFact
    /\ call.max_goals_per_subtask = MaxGoalsPerSubtask
    /\ \A f \in call.task.init : f.predicate # "weld_type"
    /\ Range(call.result) = Range(call.subtasks)
    /\ call.result # call.subtasks

\* ---- extract_roles_for_goal under every visiting order ------------------
\* role loc as in DomainRoleConfig; role tool with one extractor bound to the
\* goal, weld_type(goal.args[0], tool), and one bound to role loc,
\* weld_type(loc, tool)
ToolConfig ==
    [DomainRoleConfig({"weld", "paint"}, FALSE) EXCEPT
        !.roles = [loc |-> <<ExtractorConfig("reachable", {Binding(1, "goal", 0, "")}, 0)>>,
                   tool |-> <<ExtractorConfig("weld_type", {Binding(0, "goal", 0, "")}, 1),
                              ExtractorConfig("weld_type", {Binding(0, "role", 0, "loc")},
                                              1)>>]]

InitRoleOrder ==
    \E init \in SUBSET {Reachable("r1", "a"), Reachable("r2", "a"), Reachable("r2", "b"),
                        WeldType("a", "t2"), WeldType("r1", "t1"), WeldType("r2", "t2")} :
    \E omr \in {"error", "skip_goal"} :
    \E cfg \in {DomainRoleConfig({"weld", "paint"}, FALSE), ToolConfig} :
        InitCall([op |-> "extract_roles_for_goal", task |-> PlanningTask(init, RoleGoals, {}),
                  cfg |-> cfg, on_missing_role |-> omr])

\* extract_roles_for_goal for each goal under each iteration order of
\* remaining_roles
ExtractInEveryOrder ==
    /\ call.op = "extract_roles_for_goal"
    /\ Called(call @@
              [by_order |->
                  [order \in Perms(DOMAIN call.cfg.roles) |->
                      [g \in call.task.goals |->
                          LET res == extract_roles_for_goal(call.task, g, call.cfg,
                                                            call.on_missing_role, order)
                          IN  [status |-> res.status, roles |-> res.roles]]]])

SpecRoleOrder == InitRoleOrder /\ [][ExtractInEveryOrder]_vars

\* C27: extract_roles_for_goal returns the same outcome and role mapping for
\* every order in which the unresolved roles are visited.
C27_SameRolesForEveryOrder ==
    (pc = "called" /\ call.op = "extract_roles_for_goal") =>
        \A o1, o2 \in DOMAIN call.by_order :
            \A g \in call.task.goals : call.by_order[o1][g] = call.by_order[o2][g]

\* ---- agents whose role could not be resolved ----------------------------
UnresolvedAgentRoles(a) ==
    IF role_cfg.has_agent_role_extractors
    THEN (DOMAIN role_cfg.agent_role_extractors) \ (DOMAIN AgentRoles[a])
    ELSE {}

\* C29: extract_agent_roles gives every agent a mapping over the configured
\* agent roles, with the role left out exactly when no init fact resolves it;
\* an agent with a role left out is feasible for every subtask whatever value
\* the signature requires for that role, and with such an agent no subtask is
\* left without an agent.
C29_UnresolvedAgentRoleIsFeasible ==
    pc \in {"allocated", "alloc_error"} =>
        /\ \A a \in DOMAIN capabilities :
              /\ DOMAIN AgentRoles[a] \subseteq
                     (IF role_cfg.has_agent_role_extractors
                      THEN DOMAIN role_cfg.agent_role_extractors ELSE {})
              /\ \A r \in DOMAIN AgentRoles[a] :
                     /\ Robot(a) \in task.init
                     /\ AgentRoles[a][r] = a
              /\ UnresolvedAgentRoles(a) # {} =>
                     /\ Robot(a) \notin task.init
                     /\ \A n \in 1..Len(subtasks) :
                           /\ a \in FeasibleAgents(n)
                           /\ \A v \in {Str("r1"), Str("r2"), <<"r1", "|", "r2">>} :
                                 can_execute_subtask(
                                     [subtasks[n] EXCEPT !.role_signature = [loc |-> v]],
                                     a, AgentRoles)
        /\ (\E a \in DOMAIN capabilities : UnresolvedAgentRoles(a) # {}) => pc = "allocated"

\* an agent without a robot fact is assigned a subtask whose signature names
\* another robot, next to an agent whose role is resolved
C29_UnresolvedAgentAssigned ==
    /\ pc = "allocated"
    /\ \E a, b \in DOMAIN capabilities :
          /\ UnresolvedAgentRoles(a) = {"loc"}
          /\ UnresolvedAgentRoles(b) = {}
          /\ \E n \in 1..Len(subtasks) :
                /\ assignment[subtasks[n].id] = a
                /\ subtasks[n].role_signature.loc = Str(b)

====
